---- MODULE Spec2Model ----
(***************************************************************************)
(* Model of the subscription e-mail detection engine of subtracker:        *)
(*   - EmailSubscriptionParser (src/src/lib/email-parser.ts), the class    *)
(*     pipeline that returns one DetectedSubscription per candidate type;  *)
(*   - parseSubscriptionEmail (src/unnamed/part_015, emailParser.js), the  *)
(*     module-level single-result parser the class delegates dates to.     *)
(*                                                                         *)
(* Text.  A string is modelled as the sequence of the pieces that its      *)
(* single spaces separate ("a b" is <<"a","b">>, "a  " is <<"a","","">>),  *)
(* so the concatenations of the code ( `${subject} ${bodyText} ...` ) are  *)
(* concatenations of sequences in which an empty field leaves the empty    *)
(* piece "".  A line break is the piece NL.  A regular expression is the   *)
(* sequence of its literal parts, each with the gap the expression allows  *)
(* before it; a piece carries a literal when the literal is a substring of *)
(* the lower-cased piece (Frags).                                          *)
(*                                                                         *)
(* Numbers.  Money is counted in cents (15.99 is 1599), confidence in      *)
(* tenths (0.5 is 5, 1.0 is 10), time in days since 2025-01-01.            *)
(***************************************************************************)
EXTENDS Integers, Sequences, FiniteSets, TLC

VARIABLES
    email,       \* the EmailData handed to the engine
    now,         \* the wall clock, Date.now()
    pc,          \* "ready", or "returned" once parseEmail has returned
    detections,  \* the list parseEmail returned last
    steps,       \* the stages the last parseEmail call went through
    result,      \* what parseSubscriptionEmail returned last
    chrono,      \* "ok", or "throws" when chrono.parse raises an error
    batch,       \* the array handed to parseMultipleEmails
    results,     \* the array parseMultipleEmails returned last
    lastIndex,   \* the lastIndex of each AMOUNT_PATTERNS regex, in pieces
    amount,      \* what extractAmount returned last, and for which messages
    db,          \* the tables: user_emails, email_logs, detected_subscriptions,
                 \* subscriptions
    procs,       \* the route handlers in flight or finished, with their locals
    reply        \* what the retry endpoint computed last

vars == <<email, now, pc, detections, steps, result, chrono, batch, results,
          lastIndex, amount, db, procs, reply>>

(***************************************************************************)
(* Bounds of the input space.                                              *)
(***************************************************************************)
MaxBody == 2
MaxClock == 1
MaxBatch == 2
MaxCalls == 3

(***************************************************************************)
(* Text primitives                                                         *)
(***************************************************************************)
NL == "\n"

Range(s) == {s[i] : i \in DOMAIN s}

Min(a, b) == IF a < b THEN a ELSE b

\* The first and the last of a non-empty set of positions.
Least(S) == CHOOSE x \in S : \A y \in S : x <= y

Greatest(S) == CHOOSE x \in S : \A y \in S : y <= x

\* The pattern literals (lower case) that occur in a piece as substrings,
\* "#d" standing for a digit.  A piece not listed carries itself only.
Frags(t) ==
    CASE t = "Your" -> {"your", "you"}
      [] t = "Welcome" -> {"welcome"}
      [] t = "Netflix" -> {"netflix"}
      [] t = "Next" -> {"next"}
      [] t = "started" -> {"started", "start"}
      [] t = "ends" -> {"ends", "end"}
      [] t = "ending" -> {"ending", "end"}
      [] t = "renewed" -> {"renewed", "renew", "new"}
      [] t = "billing" -> {"billing", "bill"}
      [] t = "activated" -> {"activated", "act"}
      [] t = "monthly" -> {"monthly", "month"}
      [] t = "yearly" -> {"yearly", "year"}
      [] t = "tomorrow" -> {"tomorrow"}
      [] t = "$15.99" -> {"#d"}
      [] t = "$15.99/month." -> {"#d", "month"}
      [] t = "$25000" -> {"#d"}
      [] t = "$0" -> {"#d"}
      [] t = "€9.99" -> {"#d"}
      [] t = "£5" -> {"#d"}
      [] t = "15" -> {"#d"}
      [] t = "usd" -> {"usd"}
      [] t = "USD" -> {"usd"}
      [] t = "January 2, 2025" -> {"january", "#d"}
      [] t = "January 27, 2025." -> {"january", "#d"}
      [] OTHER -> {t}

\* The longest prefix of a piece made of letters, digits and white space.
AlnumPrefix(t) ==
    CASE t \in {"$15.99", "$15.99/month.", "$25000", "$0", "€9.99", "£5"} -> ""
      [] t = "January 2, 2025" -> "January 2"
      [] t = "January 27, 2025." -> "January 27"
      [] OTHER -> t

\* String.length of the text a sequence of pieces stands for.
RECURSIVE Chars(_)
Chars(s) ==
    IF s = <<>> THEN 0
    ELSE IF Len(s) = 1 THEN Len(s[1])
    ELSE Len(s[1]) + 1 + Chars(Tail(s))

\* String.prototype.substring(0, n): the pieces that lie wholly within the
\* first n characters (a piece cut by the limit is dropped).
RECURSIVE substring(_, _)
substring(s, n) ==
    IF s = <<>> \/ Len(s[1]) > n THEN <<>>
    ELSE <<s[1]>> \o substring(Tail(s), n - Len(s[1]) - 1)

\* String.prototype.trim on a sequence of pieces.
RECURSIVE trim(_)
trim(s) ==
    IF s = <<>> THEN <<>>
    ELSE IF s[1] \in {"", NL} THEN trim(Tail(s))
    ELSE IF s[Len(s)] \in {"", NL} THEN trim(SubSeq(s, 1, Len(s) - 1))
    ELSE s

(***************************************************************************)
(* Regular expressions.  A pattern is a sequence of atoms [lit, gap]: lit  *)
(* the alternatives of a literal part, gap the number of characters the    *)
(* expression allows between the previous part and this one: -1 for ".*",  *)
(* n for ".{0,n}", 0 for white space only.  "." does not match a line      *)
(* break, so all parts of a match lie on one line.                         *)
(***************************************************************************)
A(l) == [lit |-> l, gap |-> -1]
W(l) == [lit |-> l, gap |-> 0]
G(l, n) == [lit |-> l, gap |-> n]

\* The characters between piece i and piece j > i of text s.
Between(s, i, j) ==
    IF j = i + 1 THEN 1 ELSE Chars(SubSeq(s, i + 1, j - 1)) + 2

SameLine(s, i, j) == \A k \in i..j : s[k] # NL

\* The positions at which atom a can follow a part matched at piece i
\* (i = 0: the first part of the pattern).
NextAt(s, a, i) ==
    {j \in (i + 1)..Len(s) :
        /\ Frags(s[j]) \cap a.lit # {}
        /\ i > 0 => /\ SameLine(s, i, j)
                    /\ \/ a.gap = -1
                       \/ a.gap = 0 /\ j = i + 1
                       \/ a.gap > 0 /\ Between(s, i, j) <= a.gap}

RECURSIVE MatchFrom(_, _, _, _)
MatchFrom(s, p, k, i) ==
    IF k > Len(p) THEN TRUE
    ELSE \E j \in NextAt(s, p[k], i) : MatchFrom(s, p, k + 1, j)

\* RegExp.prototype.test for a pattern without the g flag.
test(p, s) == MatchFrom(s, p, 1, 0)

(***************************************************************************)
(* EmailSubscriptionParser: the static tables                              *)
(***************************************************************************)
TRIAL_SIGNUP_PATTERNS == <<
    <<A({"welcome"}), A({"trial"})>>,
    <<A({"trial"}), A({"started"})>>,
    <<A({"free"}), A({"trial"}), A({"activated"})>>,
    <<A({"trial"}), A({"period"}), A({"begins"})>>,
    <<A({"start"}), A({"your"}), A({"trial"})>>,
    <<A({"trial"}), A({"subscription"}), A({"created"})>>,
    <<A({"#d"}), W({"day"}), A({"free"})>> >>

TRIAL_REMINDER_PATTERNS == <<
    <<A({"trial"}), A({"ends", "ending"})>>,
    <<A({"trial"}), A({"expires", "expiring"})>>,
    <<A({"#d"}), A({"day"}), A({"left"}), A({"trial"})>>,
    <<A({"trial"}), A({"will"}), A({"end"})>>,
    <<A({"subscription"}), A({"will"}), A({"begin"})>>,
    <<A({"trial"}), A({"period"}), A({"ending"})>> >>

BILLING_CONFIRMATION_PATTERNS == <<
    <<A({"payment"}), A({"successful"})>>,
    <<A({"subscription"}), A({"renewed"})>>,
    <<A({"billing"}), A({"confirmation"})>>,
    <<A({"receipt"}), A({"for"}), A({"subscription"})>>,
    <<A({"charged"}), A({"for"}), A({"subscription"})>>,
    <<A({"payment"}), A({"processed"})>>,
    <<A({"invoice"}), A({"for"}), A({"subscription"})>> >>

SUBSCRIPTION_START_PATTERNS == <<
    <<A({"subscription"}), A({"activated"})>>,
    <<A({"welcome"}), A({"subscriber"})>>,
    <<A({"subscription"}), A({"started"})>>,
    <<A({"membership"}), A({"activated"})>>,
    <<A({"account"}), A({"upgraded"})>>,
    <<A({"premium"}), A({"activated"})>> >>

PRICE_CHANGE_PATTERNS == <<
    <<A({"price"}), A({"change"})>>,
    <<A({"pricing"}), A({"update"})>>,
    <<A({"subscription"}), A({"cost"}), A({"chang"})>>,
    <<A({"new"}), A({"pricing"})>>,
    <<A({"rate"}), A({"increase"})>>,
    <<A({"billing"}), A({"amount"}), A({"chang"})>> >>

SPAM_PATTERNS == <<
    <<A({"unsubscribe"}), A({"here"})>>,
    <<A({"click"}), A({"here"}), A({"now"})>>,
    <<A({"limited"}), A({"time"}), A({"offer"})>>,
    <<A({"act"}), A({"now"})>>,
    <<A({"congratulations"}), A({"you"}), A({"won"})>>,
    <<A({"claim"}), A({"your"}), A({"prize"})>> >>

COMMON_SUBSCRIPTION_SERVICES == <<
    "netflix", "spotify", "amazon", "apple", "google", "microsoft", "adobe",
    "dropbox", "slack", "zoom", "salesforce", "hubspot", "mailchimp",
    "canva", "figma", "notion", "airtable", "calendly", "loom", "discord",
    "twitch", "youtube", "hulu", "disney", "hbo", "paramount", "peacock",
    "github", "gitlab", "vercel", "netlify", "heroku", "digitalocean" >>

DetectionTypes ==
    <<"trial_signup", "trial_reminder", "billing_confirmation",
      "subscription_start", "price_change">>

PatternsOf(type) ==
    CASE type = "trial_signup" -> TRIAL_SIGNUP_PATTERNS
      [] type = "trial_reminder" -> TRIAL_REMINDER_PATTERNS
      [] type = "billing_confirmation" -> BILLING_CONFIRMATION_PATTERNS
      [] type = "subscription_start" -> SUBSCRIPTION_START_PATTERNS
      [] type = "price_change" -> PRICE_CHANGE_PATTERNS
      [] OTHER -> <<>>

\* patterns.filter(p => p.test(content)).length
CountMatches(patterns, content) ==
    Cardinality({i \in DOMAIN patterns : test(patterns[i], content)})

(***************************************************************************)
(* Sender addresses.  An address is the sequence of its "@"-separated      *)
(* parts, each the sequence of its "."-separated labels:                   *)
(* billing@netflix.com is <<<<"billing">>, <<"netflix", "com">>>>.         *)
(***************************************************************************)
\* String.prototype.toLowerCase on a label.
toLowerCase(l) ==
    CASE l = "Netflix" -> "netflix"
      [] l = "Acme" -> "acme"
      [] OTHER -> l

\* charAt(0).toUpperCase() + slice(1)
Capitalize(l) ==
    CASE l = "netflix" -> "Netflix"
      [] l = "apple" -> "Apple"
      [] l = "spotify" -> "Spotify"
      [] l = "acme" -> "Acme"
      [] l = "acmeapp" -> "Acmeapp"
      [] l = "example" -> "Example"
      [] l = "tempmail" -> "Tempmail"
      [] l = "gmail" -> "Gmail"
      [] l = "com" -> "Com"
      [] l = "privaterelay" -> "Privaterelay"
      [] OTHER -> l

\* The registry names that occur in a label as substrings.
InLabel(l) ==
    CASE l = "appleid" -> {"apple"}
      [] l = "10minutemail" -> {"10minutemail"}
      [] OTHER -> {l}

\* from.split('@')[1]?.toLowerCase(): <<>> when undefined, else <<labels>>.
DomainOf(from) ==
    IF Len(from) < 2 THEN <<>>
    ELSE <<[i \in DOMAIN from[2] |-> toLowerCase(from[2][i])]>>

\* .replace(/^(mail\.|noreply\.|no-reply\.)/, '')
StripPrefix(d) ==
    IF Len(d) >= 2 /\ d[1] \in {"mail", "noreply", "no-reply"} THEN Tail(d) ELSE d

getEmailContent(emailData) ==
    LET Field(f) == IF f = <<>> THEN <<"">> ELSE f
    IN  Field(emailData.subject) \o Field(emailData.bodyText) \o Field(emailData.bodyHtml)

\* isSpamEmail without the sender check.
isSpamEmailPatternsOnly(content, from) ==
    \E i \in DOMAIN SPAM_PATTERNS : test(SPAM_PATTERNS[i], content)

isSpamEmail(content, from) ==
    \/ \E i \in DOMAIN SPAM_PATTERNS : test(SPAM_PATTERNS[i], content)
    \/ LET suspiciousDomains == {"tempmail", "guerrillamail", "10minutemail"}
           domain == DomainOf(from)
       IN  /\ domain # <<>>
           /\ \E i \in DOMAIN domain[1] : InLabel(domain[1][i]) \cap suspiciousDomains # {}

(***************************************************************************)
(* Capture groups ([A-Za-z0-9\s]+) of the service-name patterns            *)
(***************************************************************************)
Whole(t) == AlnumPrefix(t) = t

\* The last piece of the run of letter/digit/space pieces that starts at k
\* (k - 1 when piece k is no such piece).
RECURSIVE RunEnd(_, _)
RunEnd(s, k) ==
    IF k > Len(s) \/ ~Whole(s[k]) THEN k - 1 ELSE RunEnd(s, k + 1)

\* The text a greedy ([A-Za-z0-9\s]+) takes when it starts at piece k.
GreedyCapture(s, k) ==
    LET e == RunEnd(s, k)
    IN  SubSeq(s, k, e) \o (IF e < Len(s) THEN <<AlnumPrefix(s[e + 1])>> ELSE <<>>)

\* words (each a set of alternatives), each followed by white space, at
\* pieces i .. i + Len(words) - 1
WordsAt(s, words, i) ==
    /\ i + Len(words) - 1 <= Len(s)
    /\ \A k \in DOMAIN words : words[k] \cap Frags(s[i + k - 1]) # {}

\* content.match(/<words> ([A-Za-z0-9\s]+)/i): <<>> or <<match[1]>>
MatchAfter(s, words) ==
    LET hits == {i \in DOMAIN s :
                    /\ WordsAt(s, words, i)
                    /\ Chars(GreedyCapture(s, i + Len(words))) >= 1}
    IN  IF hits = {} THEN <<>>
        ELSE LET i == CHOOSE h \in hits : \A g \in hits : h <= g
             IN  <<GreedyCapture(s, i + Len(words))>>

\* The pieces j at which a capture that starts at piece k can stop so that
\* " <one of ends>" follows it.
StopsAt(s, k, ends) ==
    {j \in (k + 1)..Min(RunEnd(s, k) + 1, Len(s)) :
        /\ Frags(s[j]) \cap ends # {}
        /\ Chars(SubSeq(s, k, j - 1)) >= 1}

\* content.match(/<words> ([A-Za-z0-9\s]+) (<ends>)/i), the capture greedy.
MatchBetween(s, words, ends) ==
    LET hits == {i \in DOMAIN s :
                    /\ WordsAt(s, words, i)
                    /\ StopsAt(s, i + Len(words), ends) # {}}
    IN  IF hits = {} THEN <<>>
        ELSE LET i == CHOOSE h \in hits : \A g \in hits : h <= g
                 k == i + Len(words)
                 j == CHOOSE x \in StopsAt(s, k, ends) :
                          \A y \in StopsAt(s, k, ends) : y <= x
             IN  <<SubSeq(s, k, j - 1)>>

\* The service name: <<>> for null, else <<name>>, a name being the
\* sequence of its words (<<>> is the empty string).
extractServiceName(from, content) ==
    LET split == DomainOf(from)
        domain == IF split = <<>> THEN <<>> ELSE StripPrefix(split[1])
        hasDomain == domain # <<>> /\ domain # <<"">>
        known == {i \in DOMAIN COMMON_SUBSCRIPTION_SERVICES :
                     \E k \in DOMAIN domain :
                         COMMON_SUBSCRIPTION_SERVICES[i] \in InLabel(domain[k])}
        m1 == MatchAfter(content,
                         <<{"thank"}, {"you"}, {"for"}, {"subscribing"}, {"to"}>>)
        m2 == MatchAfter(content, <<{"welcome"}, {"to"}>>)
        m3 == MatchBetween(content, <<{"your"}>>, {"subscription"})
        m4 == MatchBetween(content, <<>>, {"membership"})
    IN  IF hasDomain /\ known # {}
          THEN <<<<Capitalize(COMMON_SUBSCRIPTION_SERVICES[
                      CHOOSE i \in known : \A j \in known : i <= j])>>>>
        ELSE IF hasDomain /\ Len(domain[1]) > 2
          THEN <<<<Capitalize(domain[1])>>>>
        ELSE IF m1 # <<>> THEN <<trim(m1[1])>>
        ELSE IF m2 # <<>> THEN <<trim(m2[1])>>
        ELSE IF m3 # <<>> THEN <<trim(m3[1])>>
        ELSE IF m4 # <<>> THEN <<trim(m4[1])>>
        ELSE <<>>

(***************************************************************************)
(* emailParser.js: the module-level parser                                 *)
(***************************************************************************)
SUBSCRIPTION_PATTERNS == <<
    [type |-> "trialStart", patterns |-> <<
        <<A({"trial"}), G({"start", "begin", "activated", "live"}, 20)>>,
        <<A({"free"}), G({"trial"}, 20), G({"start", "begin"}, 20)>>,
        <<A({"#d"}), W({"day"}), G({"free"}, 20)>>,
        <<A({"start"}), G({"your"}, 20), G({"trial"}, 20)>> >>],
    [type |-> "trialEnd", patterns |-> <<
        <<A({"trial"}), G({"end", "expire", "expiring"}, 20)>>,
        <<A({"trial"}), G({"will"}, 20), G({"end", "expire"}, 20)>>,
        <<A({"#d"}), G({"day"}, 20), G({"left"}, 20), G({"trial"}, 20)>>,
        <<A({"trial"}), G({"period"}, 20), G({"end", "expire"}, 20)>> >>],
    [type |-> "billing", patterns |-> <<
        <<A({"bill"}), G({"date", "cycle", "period"}, 20)>>,
        <<A({"next"}), G({"payment", "charge", "bill"}, 20)>>,
        <<A({"subscription"}), G({"renew"}, 20)>>,
        <<A({"auto"}), W({"renew"})>>,
        <<A({"recurring"}), G({"payment", "charge"}, 20)>> >>],
    [type |-> "cancellation", patterns |-> <<
        <<A({"subscription"}), G({"cancelle", "terminated"}, 20)>>,
        <<A({"cancelle"}), G({"your"}, 20), G({"subscription"}, 20)>>,
        <<A({"no"}), G({"longer"}, 20), G({"subscribed"}, 20)>>,
        <<A({"membership"}), G({"cancelle", "ended"}, 20)>> >>],
    [type |-> "priceChange", patterns |-> <<
        <<A({"price"}), G({"change", "increase", "update"}, 20)>>,
        <<A({"new"}), G({"pricing"}, 20)>>,
        <<A({"rate"}), G({"change", "increase"}, 20)>>,
        <<A({"billing"}), G({"amount"}, 20), G({"change", "update"}, 20)>> >>] >>

\* The currency sign a piece starts with and the number that follows it.
MoneyPieces == {"$15.99", "$15.99/month.", "$25000", "$0", "€9.99", "£5"}

\* parseFloat of the number a money piece carries, in cents.
Money(t) ==
    CASE t = "$15.99" -> [sym |-> "$", text |-> "15.99", cents |-> 1599]
      [] t = "$15.99/month." -> [sym |-> "$", text |-> "15.99", cents |-> 1599]
      [] t = "$25000" -> [sym |-> "$", text |-> "25000", cents |-> 2500000]
      [] t = "$0" -> [sym |-> "$", text |-> "0", cents |-> 0]
      [] t = "€9.99" -> [sym |-> "€", text |-> "9.99", cents |-> 999]
      [] t = "£5" -> [sym |-> "£", text |-> "5", cents |-> 500]

\* The pieces that end with a number (\d+(?:\.\d{2})?), and that number.
NumberEnded == {"15", "$15.99", "$25000", "$0", "€9.99", "£5", "January 2, 2025"}

TrailingNumber(t) ==
    CASE t = "15" -> [text |-> "15", cents |-> 1500]
      [] t = "January 2, 2025" -> [text |-> "2025", cents |-> 202500]
      [] OTHER -> [text |-> Money(t).text, cents |-> Money(t).cents]

\* The pieces that start with a number, and that number.
NumberStarted == {"15"}

LeadingNumber(t) == [text |-> "15", cents |-> 1500]

\* The match of amount pattern k that starts at piece i: <<>> or
\* <<[m0, cents, last]>>, m0 the parts of the matched text match[0], cents
\* parseFloat(match[1]), last the piece the match ends in.
amountAt(s, k, i) ==
    CASE k = "$" \/ k = "€" \/ k = "£" ->
            IF s[i] \in MoneyPieces /\ Money(s[i]).sym = k
              THEN <<[m0 |-> <<k, Money(s[i]).text>>, cents |-> Money(s[i]).cents,
                      last |-> i]>>
            ELSE IF s[i] = k /\ i < Len(s) /\ s[i + 1] \in NumberStarted
              THEN <<[m0 |-> <<k, " ", LeadingNumber(s[i + 1]).text>>,
                      cents |-> LeadingNumber(s[i + 1]).cents, last |-> i + 1]>>
            ELSE <<>>
      [] k = "USD n" ->
            IF "usd" \in Frags(s[i]) /\ i < Len(s) /\ s[i + 1] \in NumberStarted
              THEN <<[m0 |-> <<s[i], " ", LeadingNumber(s[i + 1]).text>>,
                      cents |-> LeadingNumber(s[i + 1]).cents, last |-> i + 1]>>
            ELSE <<>>
      [] k = "n USD" ->
            IF s[i] \in NumberEnded /\ i < Len(s) /\ "usd" \in Frags(s[i + 1])
              THEN <<[m0 |-> <<TrailingNumber(s[i]).text, " ", s[i + 1]>>,
                      cents |-> TrailingNumber(s[i]).cents, last |-> i + 1]>>
            ELSE <<>>

\* The matches of one amount pattern, left to right.
AmountMatches(s, k) ==
    LET F[i \in 0..Len(s)] == IF i = 0 THEN <<>> ELSE F[i - 1] \o amountAt(s, k, i)
    IN  F[Len(s)]

AMOUNT_PATTERNS == <<"$", "USD n", "n USD", "€", "£">>

SERVICE_NAME_PATTERNS == <<"thank you for", "your", "welcome to">>

detectEmailType(emailContent) ==
    LET Field(f) == IF f = <<>> THEN <<"">> ELSE f
        content == Field(emailContent.subject) \o Field(emailContent.body)
        hit == {g \in DOMAIN SUBSCRIPTION_PATTERNS :
                   \E i \in DOMAIN SUBSCRIPTION_PATTERNS[g].patterns :
                       test(SUBSCRIPTION_PATTERNS[g].patterns[i], content)}
    IN  IF hit = {} THEN "unknown"
        ELSE SUBSCRIPTION_PATTERNS[CHOOSE g \in hit : \A h \in hit : g <= h].type

\* A name is the sequence of its words: "unknown" is <<"unknown">>.
extractFromDomain(emailAddress) ==
    LET genericDomains == {"gmail", "yahoo", "outlook", "hotmail", "mail",
                           "email", "noreply", "no-reply"}
    IN  IF emailAddress = <<<<"">>>> THEN <<"unknown">>
        ELSE IF Len(emailAddress) < 2 \/ emailAddress[2][1] = "" THEN <<"unknown">>
        ELSE LET domain == toLowerCase(emailAddress[2][1])
                 parts == emailAddress[2]
                 ok == {i \in DOMAIN parts :
                           /\ toLowerCase(parts[i]) \notin genericDomains
                           /\ Len(parts[i]) > 2}
             IN  IF domain \in genericDomains
                   THEN IF ok = {} THEN <<"unknown">>
                        ELSE <<Capitalize(parts[CHOOSE i \in ok : \A j \in ok : i <= j])>>
                 ELSE <<Capitalize(domain)>>

\* /^[A-Z]/.test(word)
Capitalized == {"Your", "Welcome", "Netflix", "Next", "January 2, 2025",
                "January 27, 2025.", "USD"}

\* subject.split(/\s+/): the words of the subject; a date piece is several.
WordsOf(t) ==
    CASE t = "January 2, 2025" -> <<"January", "2,", "2025">>
      [] t = "January 27, 2025." -> <<"January", "27,", "2025.">>
      [] OTHER -> <<t>>

extractServiceNameLegacy(mail) ==
    LET Field(f) == IF f = <<>> THEN <<"">> ELSE f
        content == Field(mail.subject) \o Field(mail.body)
        m1a == MatchAfter(content,
                   <<{"thank"}, {"you"}, {"for"}, {"subscribing"}, {"to", "for"}>>)
        m1b == MatchAfter(content,
                   <<{"thank"}, {"you"}, {"for"}, {"signing"}, {"up"}, {"to", "for"}>>)
        m2 == MatchBetween(content, <<{"your"}>>,
                           {"subscription", "membership", "account"})
        m3 == MatchAfter(content, <<{"welcome"}, {"to"}>>)
        domain == extractFromDomain(mail.from)
        big == {i \in DOMAIN mail.subject :
                   Len(WordsOf(mail.subject[i])[1]) > 3 /\ mail.subject[i] \in Capitalized}
    IN  IF m1a # <<>> THEN trim(m1a[1])
        ELSE IF m1b # <<>> THEN trim(m1b[1])
        ELSE IF m2 # <<>> THEN trim(m2[1])
        ELSE IF m3 # <<>> THEN trim(m3[1])
        ELSE IF domain # <<"unknown">> THEN domain
        ELSE IF big # {}
          THEN <<WordsOf(mail.subject[CHOOSE i \in big : \A j \in big : i <= j])[1]>>
        ELSE <<"Unknown", "Service">>

\* chrono-node: the pieces it reads a date from, and the date it reads,
\* relative dates being resolved against the reference instant ref.
DatePieces == {"January 2, 2025", "January 27, 2025.", "tomorrow"}

ChronoDate(t, ref) ==
    CASE t = "January 2, 2025" -> 1
      [] t = "January 27, 2025." -> 26
      [] t = "tomorrow" -> ref + 1

\* chrono.parse(content).map(d => d.date()); chrono's reference is the
\* clock, no reference being passed.
extractDates(content, t) ==
    LET F[i \in 0..Len(content)] ==
            IF i = 0 THEN <<>>
            ELSE IF content[i] \in DatePieces
              THEN F[i - 1] \o <<ChronoDate(content[i], t)>>
            ELSE F[i - 1]
    IN  F[Len(content)]

\* The pieces at which (end|expire) can follow a "trial" at piece i.
sectionEnds(content, i) ==
    {j \in (i + 1)..Len(content) :
        /\ Frags(content[j]) \cap {"end", "expire"} # {}
        /\ SameLine(content, i, j)
        /\ Between(content, i, j) <= 100}

\* The pieces the trailing .{0,100} can reach from piece j.
sectionTail(content, j) ==
    {k \in j..Len(content) :
        /\ SameLine(content, j, k)
        /\ Chars(SubSeq(content, j + 1, k)) + 1 <= 100}

\* The first match, all its quantifiers greedy.
sectionFrom(content, starts) ==
    IF starts = {} THEN <<>>
    ELSE <<SubSeq(content, Least(starts),
                  Greatest(sectionTail(content,
                                       Greatest(sectionEnds(content, Least(starts))))))>>

\* content.match(/trial.{0,100}(end|expire).{0,100}/gi)[0]: <<>> when the
\* match is null, else <<the matched text>>.
trialEndSection(content) ==
    sectionFrom(content,
                {i \in DOMAIN content :
                    "trial" \in Frags(content[i]) /\ sectionEnds(content, i) # {}})

\* email.subject + ' ' + email.body
legacyContent(mail) ==
    (IF mail.subject = <<>> THEN <<"">> ELSE mail.subject)
        \o (IF mail.body = <<>> THEN <<"">> ELSE mail.body)

\* dates[0].date when there is one
firstDate(dates, otherwise) == IF dates # <<>> THEN <<dates[1]>> ELSE otherwise

\* extractDates(trialEndSection[0]) inside `if (trialEndSection)`
sectionDates(section, t) ==
    IF section = <<>> THEN <<>> ELSE extractDates(section[1], t)

\* allDates.filter(d => d.date > emailDate)
futureDates(allDates, emailDate) == SelectSeq(allDates, LAMBDA d : d > emailDate)

\* <<>> for null, else <<date>>.  mail.date is <<>> or <<date>>.
extractTrialEndDate(mail, t) ==
    firstDate(sectionDates(trialEndSection(legacyContent(mail)), t),
              firstDate(futureDates(extractDates(legacyContent(mail), t),
                                    IF mail.date # <<>> THEN mail.date[1] ELSE t),
                        <<>>))

\* findMode that lets a later number of equal frequency take over.
findLastMode(numbers) ==
    LET freq(i) == Cardinality({j \in 1..i : numbers[j] = numbers[i]})
        F[i \in 0..Len(numbers)] ==
            IF i = 0 THEN [maxFreq |-> 0, mode |-> <<>>]
            ELSE IF freq(i) >= F[i - 1].maxFreq
              THEN [maxFreq |-> freq(i), mode |-> <<numbers[i]>>]
            ELSE F[i - 1]
        r == F[Len(numbers)]
    IN  IF r.maxFreq > 1 THEN r.mode ELSE <<>>

\* <<>> for null, else <<the number>>.
findMode(numbers) ==
    LET freq(i) == Cardinality({j \in 1..i : numbers[j] = numbers[i]})
        F[i \in 0..Len(numbers)] ==
            IF i = 0 THEN [maxFreq |-> 0, mode |-> <<>>]
            ELSE IF freq(i) > F[i - 1].maxFreq
              THEN [maxFreq |-> freq(i), mode |-> <<numbers[i]>>]
            ELSE F[i - 1]
        r == F[Len(numbers)]
    IN  IF r.maxFreq > 1 THEN r.mode ELSE <<>>

\* The amounts pushed, in range, after amounts.sort((a, b) => a - b).
sorted(found) ==
    SortSeq(SelectSeq(found, LAMBDA a : a > 0 /\ a < 1000000), LAMBDA a, b : a < b)

\* The same with the lower of two middle elements.
modeOrLowerMiddle(amounts, mode) ==
    IF mode # <<>> /\ mode[1] # 0 THEN mode
    ELSE <<amounts[(Len(amounts) + 1) \div 2]>>

\* findMode(amounts) when truthy, else the middle element
modeOrMiddle(amounts, mode) ==
    IF mode # <<>> /\ mode[1] # 0 THEN mode
    ELSE <<amounts[(Len(amounts) \div 2) + 1]>>

\* Lines 164-174 on the sorted amounts: <<>> for null, else <<cents>>.
chooseAmount(amounts) ==
    IF amounts = <<>> THEN <<>>
    ELSE IF Cardinality(Range(amounts)) = 1 THEN <<amounts[1]>>
    ELSE modeOrMiddle(amounts, findMode(amounts))

\* parseFloat(match[1]) of every match
centsOf(matches) == [i \in DOMAIN matches |-> matches[i].cents]

\* The matches of pattern 1, then those of pattern 2, ...
allMatches(content) ==
    LET P[k \in 0..Len(AMOUNT_PATTERNS)] ==
            IF k = 0 THEN <<>>
            ELSE P[k - 1] \o AmountMatches(content, AMOUNT_PATTERNS[k])
    IN  P[Len(AMOUNT_PATTERNS)]

\* <<>> for null, else <<cents>>: the result when every pattern's lastIndex
\* is 0 at the call.
extractAmount(mail) ==
    chooseAmount(sorted(centsOf(allMatches(legacyContent(mail)))))

\* pattern.exec(content) on a g-flag pattern whose lastIndex is li (counted
\* in pieces): the first match after li and the lastIndex it leaves, 0
\* after a null match.
execAt(s, k, hits) ==
    IF hits = {} THEN [match |-> <<>>, lastIndex |-> 0]
    ELSE [match |-> amountAt(s, k, Least(hits)),
          lastIndex |-> amountAt(s, k, Least(hits))[1].last]

exec(s, k, li) ==
    execAt(s, k, {i \in (li + 1)..Len(s) : amountAt(s, k, i) # <<>>})

\* One exec and no more: `if` in the place of `while`.
execOnce(s, k, li, found) ==
    [found |-> found \o exec(s, k, li).match, lastIndex |-> exec(s, k, li).lastIndex]

\* while ((match = pattern.exec(content)) !== null) { ...push... }
RECURSIVE execLoop(_, _, _, _)
RECURSIVE pushed(_, _, _, _)
pushed(s, k, r, found) ==
    IF r.match = <<>> THEN [found |-> found, lastIndex |-> r.lastIndex]
    ELSE execLoop(s, k, r.lastIndex, found \o r.match)

execLoop(s, k, li, found) == pushed(s, k, exec(s, k, li), found)

\* for (const pattern of AMOUNT_PATTERNS): the loop of each pattern, from
\* the lastIndex the pattern has
execLoops(content, li) ==
    [k \in DOMAIN AMOUNT_PATTERNS |-> execLoop(content, AMOUNT_PATTERNS[k], li[k], <<>>)]

\* What the loops pushed, and where they left the patterns.
looped(loops) ==
    LET P[k \in 0..Len(loops)] == IF k = 0 THEN <<>> ELSE P[k - 1] \o loops[k].found
    IN  [value |-> chooseAmount(sorted(centsOf(P[Len(loops)]))),
         lastIndex |-> [k \in DOMAIN loops |-> loops[k].lastIndex]]

\* extractAmount(mail) called when the patterns' lastIndex is li.
extractAmountAt(mail, li) == looped(execLoops(legacyContent(mail), li))

countPatternMatches(mail) ==
    LET Field(f) == IF f = <<>> THEN <<"">> ELSE f
        content == Field(mail.subject) \o Field(mail.body)
    IN  Cardinality({<<g, i>> \in (DOMAIN SUBSCRIPTION_PATTERNS) \X (1..5) :
                        /\ i \in DOMAIN SUBSCRIPTION_PATTERNS[g].patterns
                        /\ test(SUBSCRIPTION_PATTERNS[g].patterns[i], content)})

\* The bonus from two matching patterns on.
hasSeveralPatternMatches(mail) == countPatternMatches(mail) >= 2

\* const hasMultiplePatternMatches = countPatternMatches(email) > 2
hasMultiplePatternMatches(mail) == countPatternMatches(mail) > 2

\* calculateConfidence that averages the weights over the factors counted
\* (in twentieths).
calculateConfidenceAveraged(mail, extractedData) ==
    LET c1 == IF extractedData.type # "unknown" THEN 3 ELSE 0
        c2 == IF extractedData.serviceName # <<"Unknown", "Service">> THEN 2 ELSE 0
        c3 == IF extractedData.trialEndDate # <<>> THEN 2 ELSE 0
        c4 == IF extractedData.billingAmount # <<>> /\ extractedData.billingAmount[1] # 0
                THEN 2 ELSE 0
        c5 == IF countPatternMatches(mail) > 2 THEN 1 ELSE 0
        factors == Cardinality({x \in {<<1, c1>>, <<2, c2>>, <<3, c3>>, <<4, c4>>, <<5, c5>>} :
                                   x[2] > 0})
    IN  IF factors > 0 THEN (2 * (c1 + c2 + c3 + c4 + c5)) \div factors ELSE 0

\* In tenths.
calculateConfidenceLegacy(mail, extractedData) ==
    LET c1 == IF extractedData.type # "unknown" THEN 3 ELSE 0
        c2 == IF extractedData.serviceName # <<"Unknown", "Service">> THEN 2 ELSE 0
        c3 == IF extractedData.trialEndDate # <<>> THEN 2 ELSE 0
        c4 == IF extractedData.billingAmount # <<>> /\ extractedData.billingAmount[1] # 0
                THEN 2 ELSE 0
        c5 == IF hasMultiplePatternMatches(mail) THEN 1 ELSE 0
        factors == Cardinality({x \in {<<1, c1>>, <<2, c2>>, <<3, c3>>, <<4, c4>>, <<5, c5>>} :
                                   x[2] > 0})
    IN  IF factors > 0 THEN c1 + c2 + c3 + c4 + c5 ELSE 0

\* !email.subject && !email.body: the call throws 'Invalid email object'
throws(mail) == mail.subject = <<>> /\ mail.body = <<>>

\* chrono.parse, which extractTrialEndDate calls on every path, throws
chronoThrows == chrono = "throws"

\* { ...extractedData, confidence, metadata }
scored(mail, extractedData, t) ==
    [threw |-> FALSE,
     confidence |-> calculateConfidenceLegacy(mail, extractedData),
     metadata |-> [emailDate |-> IF mail.date # <<>> THEN mail.date[1] ELSE t,
                   from |-> mail.from,
                   subject |-> mail.subject]] @@ extractedData

\* [threw |-> TRUE] when the call throws, else the object it returns.
parseSubscriptionEmail(mail, t) ==
    IF throws(mail)
      THEN [threw |-> TRUE, error |-> "Invalid email object: must have subject or body"]
    ELSE IF chronoThrows THEN [threw |-> TRUE, error |-> "chrono"]
    ELSE scored(mail,
                [type |-> detectEmailType(mail),
                 serviceName |-> extractServiceNameLegacy(mail),
                 trialEndDate |-> extractTrialEndDate(mail, t),
                 billingAmount |-> extractAmount(mail)],
                t)

\* One element of the array parseMultipleEmails returns.
outcome(mail, r) ==
    IF r.threw THEN [success |-> FALSE, error |-> r.error, email |-> mail]
    ELSE [success |-> TRUE, data |-> r]

\* parseMultipleEmails that gives up at the first email that throws.
RECURSIVE parseMultipleEmailsUntilFailure(_, _)
parseMultipleEmailsUntilFailure(emails, t) ==
    IF emails = <<>> \/ parseSubscriptionEmail(emails[1], t).threw THEN <<>>
    ELSE <<outcome(emails[1], parseSubscriptionEmail(emails[1], t))>>
             \o parseMultipleEmailsUntilFailure(Tail(emails), t)

\* emails.map(email => { try {...} catch (error) {...} })
parseMultipleEmails(emails, t) ==
    [i \in DOMAIN emails |-> outcome(emails[i], parseSubscriptionEmail(emails[i], t))]

\* Where a parseSubscriptionEmail(mail) call leaves the amount patterns: as
\* they were when it throws before extractAmount is reached.
lastIndexAfter(mail, li) ==
    IF throws(mail) \/ chronoThrows THEN li ELSE extractAmountAt(mail, li).lastIndex

\* The same after the calls emails.map makes, in order.
RECURSIVE lastIndexAfterAll(_, _)
lastIndexAfterAll(emails, li) ==
    IF emails = <<>> THEN li
    ELSE lastIndexAfterAll(Tail(emails), lastIndexAfter(Head(emails), li))

(***************************************************************************)
(* EmailSubscriptionParser: extraction, scoring and the aggregator         *)
(***************************************************************************)
\* The first match of one cost pattern (no g flag): <<>> or <<[m0, cents]>>.
costMatch(content, k) ==
    LET all == AmountMatches(content, k)
        strict == SelectSeq(all, LAMBDA m : Len(m.m0) = 2 \/ k = "n USD")
    IN  IF strict = <<>> THEN <<>> ELSE <<strict[1]>>

\* extractCurrency that ignores the matched text.
extractCurrencyDefault(text) == "USD"

\* text.includes(x) on the parts of a matched text
extractCurrency(text) ==
    IF "$" \in Range(text) \/ "USD" \in Range(text) THEN "USD"
    ELSE IF "€" \in Range(text) \/ "EUR" \in Range(text) THEN "EUR"
    ELSE IF "£" \in Range(text) \/ "GBP" \in Range(text) THEN "GBP"
    ELSE "USD"

\* The sources of the cycle patterns, as the characters they are made of.
cyclePatterns == <<
    [lit |-> "monthly", source |-> <<"m", "o", "n", "t", "h", "l", "y">>],
    [lit |-> "quarterly", source |-> <<"q", "u", "a", "r", "t", "e", "r", "l", "y">>],
    [lit |-> "annually", source |-> <<"a", "n", "n", "u", "a", "l", "l", "y">>],
    [lit |-> "yearly", source |-> <<"y", "e", "a", "r", "l", "y">>],
    [lit |-> "weekly", source |-> <<"w", "e", "e", "k", "l", "y">>] >>

\* String.prototype.replace(x, y) with a string x: the first occurrence.
replace(str, x, y) ==
    LET at == {i \in 1..(Len(str) - Len(x) + 1) : SubSeq(str, i, i + Len(x) - 1) = x}
    IN  IF at = {} THEN str
        ELSE LET i == CHOOSE a \in at : \A b \in at : a <= b
             IN  SubSeq(str, 1, i - 1) \o y \o SubSeq(str, i + Len(x), Len(str))

\* The cost patterns, in the order they are tried.
costPatterns == <<"$", "n USD", "€", "£">>

\* data.cost and data.currency of a match, and the rest of the loop when
\* the pattern does not match
costOf(match, otherwise) ==
    IF match = <<>> THEN otherwise
    ELSE [cost |-> match[1].cents, currency |-> extractCurrency(match[1].m0)]

\* for (const pattern of costPatterns) from pattern k on
RECURSIVE extractCost(_, _)
extractCost(content, k) ==
    IF k > Len(costPatterns) THEN <<>>
    ELSE costOf(costMatch(content, costPatterns[k]), extractCost(content, k + 1))

\* for (const pattern of cyclePatterns) from pattern k on
RECURSIVE extractCycle(_, _)
extractCycle(content, k) ==
    IF k > Len(cyclePatterns) THEN <<>>
    ELSE IF \E j \in DOMAIN content : cyclePatterns[k].lit \in Frags(content[j])
      THEN [billingCycle |-> replace(cyclePatterns[k].source, <<"l", "y">>, <<>>)]
    ELSE extractCycle(content, k + 1)

\* parsed.trialEndDate, the one field of parsed that is read; a throw of
\* parseSubscriptionEmail is caught and ignored
parsedTrialEndDate(emailObj, t) ==
    IF throws(emailObj) \/ chronoThrows THEN <<>>
    ELSE extractTrialEndDate(emailObj, t)

\* if (parsed.trialEndDate) data.trialEndDate = ...
dateOf(trialEndDate) ==
    IF trialEndDate # <<>> THEN [trialEndDate |-> trialEndDate[1]] ELSE <<>>

\* extractSubscriptionData whose try block encloses the whole extraction.
extractSubscriptionDataOrNothing(content, t) ==
    IF chronoThrows THEN <<>>
    ELSE extractCost(content, 1)
             @@ extractCycle(content, 1)
             @@ dateOf(extractTrialEndDate([from |-> <<<<"">>>>,
                                            subject |-> substring(content, 100),
                                            body |-> content,
                                            date |-> <<>>], t))

\* Partial<DetectedSubscription>: a record of the fields that were found.
extractSubscriptionData(content, t) ==
    extractCost(content, 1)
        @@ extractCycle(content, 1)
        @@ dateOf(parsedTrialEndDate([from |-> <<<<"">>>>,
                                      subject |-> substring(content, 100),
                                      body |-> content,
                                      date |-> <<>>], t))

\* /\$\d+|\d+.*USD|€\d+|£\d+/i.test(content)
costMentioned(content) ==
    \/ \E i \in DOMAIN content : content[i] \in MoneyPieces
    \/ test(<<A({"#d"}), A({"usd"})>>, content)

\* /monthly|quarterly|annually|yearly|weekly/i.test(content)
cycleMentioned(content) ==
    \E i \in DOMAIN content :
        Frags(content[i]) \cap {"monthly", "quarterly", "annually", "yearly", "weekly"} # {}

\* /\d{1,2}\/\d{1,2}\/\d{4}|\d{4}-\d{2}-\d{2}|january|...|december/i.test(content)
dateMentioned(content) ==
    \E i \in DOMAIN content :
        Frags(content[i]) \cap
            {"#m/d/y", "#y-m-d", "january", "february", "march", "april", "may",
             "june", "july", "august", "september", "october", "november",
             "december"} # {}

\* calculateConfidence without the final Math.min.
calculateConfidenceUncapped(content, type) ==
    5 + CountMatches(PatternsOf(type), content)
      + (IF costMentioned(content) THEN 2 ELSE 0)
      + (IF cycleMentioned(content) THEN 1 ELSE 0)
      + (IF dateMentioned(content) THEN 1 ELSE 0)

\* In tenths.
calculateConfidence(content, type) ==
    LET currentTypeMatches == CountMatches(PatternsOf(type), content)
    IN  Min(5 + currentTypeMatches
              + (IF costMentioned(content) THEN 2 ELSE 0)
              + (IF cycleMentioned(content) THEN 1 ELSE 0)
              + (IF dateMentioned(content) THEN 1 ELSE 0),
            10)

\* detect that gives up when no cost was extracted.
detectNeedsCost(content, serviceName, type, t) ==
    IF /\ \E i \in DOMAIN PatternsOf(type) : test(PatternsOf(type)[i], content)
       /\ "cost" \in DOMAIN extractSubscriptionData(content, t)
      THEN <<[extractedData |-> [rawContent |-> substring(content, 500)]]
             @@ extractSubscriptionData(content, t)
             @@ [serviceName |-> serviceName,
                 detectionType |-> type,
                 confidence |-> calculateConfidence(content, type)]>>
    ELSE <<>>

\* The shared body of the five detect functions: <<>> for null, else
\* <<the DetectedSubscription>>.
detect(content, serviceName, type, t) ==
    IF \E i \in DOMAIN PatternsOf(type) : test(PatternsOf(type)[i], content)
      THEN <<[extractedData |-> [rawContent |-> substring(content, 500)]]
             @@ extractSubscriptionData(content, t)
             @@ [serviceName |-> serviceName,
                 detectionType |-> type,
                 confidence |-> calculateConfidence(content, type)]>>
    ELSE <<>>

detectTrialSignup(content, serviceName, t) ==
    detect(content, serviceName, "trial_signup", t)

detectTrialReminder(content, serviceName, t) ==
    detect(content, serviceName, "trial_reminder", t)

detectBillingConfirmation(content, serviceName, t) ==
    detect(content, serviceName, "billing_confirmation", t)

detectSubscriptionStart(content, serviceName, t) ==
    detect(content, serviceName, "subscription_start", t)

detectPriceChange(content, serviceName, t) ==
    detect(content, serviceName, "price_change", t)

\* Lines 107-121: the five detectors in turn, each result pushed unless null.
detectAll(content, serviceName, t) ==
    detectTrialSignup(content, serviceName, t)
        \o detectTrialReminder(content, serviceName, t)
        \o detectBillingConfirmation(content, serviceName, t)
        \o detectSubscriptionStart(content, serviceName, t)
        \o detectPriceChange(content, serviceName, t)

\* named that stops on a null service name only, not on an empty one.
namedNullOnly(content, serviceName, t) ==
    IF serviceName = <<>>
      THEN [detections |-> <<>>, steps |-> <<"isSpamEmail", "extractServiceName">>]
    ELSE [detections |-> detectAll(content, serviceName[1], t),
          steps |-> <<"isSpamEmail", "extractServiceName", "detect">>]

\* Lines 100-121: `if (!serviceName) return detections`, else the detectors.
named(content, serviceName, t) ==
    IF serviceName = <<>> \/ serviceName[1] = <<>>
      THEN [detections |-> <<>>, steps |-> <<"isSpamEmail", "extractServiceName">>]
    ELSE [detections |-> detectAll(content, serviceName[1], t),
          steps |-> <<"isSpamEmail", "extractServiceName", "detect">>]

\* Lines 93-121 on the content of the message.
parseContent(content, from, t) ==
    IF isSpamEmail(content, from)
      THEN [detections |-> <<>>, steps |-> <<"isSpamEmail">>]
    ELSE named(content, extractServiceName(from, content), t)

\* The list parseEmail returns at clock t, and the stages it went through.
parseEmail(emailData, t) ==
    parseContent(getEmailContent(emailData), emailData.from, t)

\* Where n calls of parseSubscriptionEmail(emailObj) leave the amount
\* patterns.
RECURSIVE lastIndexAfterCalls(_, _, _)
lastIndexAfterCalls(n, emailObj, li) ==
    IF n = 0 THEN li
    ELSE lastIndexAfterCalls(n - 1, emailObj, lastIndexAfter(emailObj, li))

\* Where parseEmail leaves them: extractSubscriptionData runs once for
\* each detection made, and each run calls parseSubscriptionEmail.
lastIndexAfterParse(parsed, content, li) ==
    lastIndexAfterCalls(Len(parsed.detections),
                        [from |-> <<<<"">>>>, subject |-> substring(content, 100),
                         body |-> content, date |-> <<>>], li)

(***************************************************************************)
(* The messages the engine is called with                                  *)
(***************************************************************************)
RECURSIVE SeqsUpTo(_, _)
SeqsUpTo(S, n) ==
    IF n = 0 THEN {<<>>}
    ELSE LET shorter == SeqsUpTo(S, n - 1)
         IN  shorter \cup {Append(q, x) : q \in shorter, x \in S}

\* The sender and subject of the generated messages.
Heads == {
    [from |-> <<<<"billing">>, <<"netflix", "com">>>>, subject |-> <<>>],
    [from |-> <<<<"billing">>, <<"netflix", "com">>>>,
     subject |-> <<"Your", "trial", "period", "will", "be", "ending">>],
    [from |-> <<<<"billing">>, <<"netflix", "com">>>>,
     subject |-> <<"subscription", "renewed">>],
    [from |-> <<<<"hello">>, <<"mail", "acme", "io">>>>,
     subject |-> <<"welcome", "trial", "subscription", "started">>],
    [from |-> <<<<"hello">>, <<"mail", "acme", "io">>>>,
     subject |-> <<"subscription", "activated">>],
    [from |-> <<<<"promo">>, <<"tempmail", "org">>>>,
     subject |-> <<"subscription", "renewed">>],
    [from |-> <<<<"info">>, <<"ab", "co">>>>,
     subject |-> <<"trial", "ends", "Welcome", "to">>],
    [from |-> <<<<"info">>, <<"ab", "co">>>>,
     subject |-> <<"Your", "trial", "ends">>] }

Vocab == {"$15.99", "$25000", "€9.99", "monthly", "January 2, 2025", "now",
          "pricing", NL}

Scenario1 ==
    [from |-> <<<<"billing">>, <<"netflix", "com">>>>,
     to |-> <<<<"user">>, <<"subtracker", "tech">>>>,
     subject |-> <<"Your", "Netflix", "subscription", "has", "been", "renewed">>,
     bodyText |-> <<"Your", "Netflix", "subscription", "has", "been", "renewed",
                    "for", "$15.99/month.", "Next", "billing", "date", "is",
                    "January 27, 2025.">>,
     bodyHtml |-> <<>>,
     receivedAt |-> 0]

\* An amount written with the ISO code in lower case.
ScenarioUsd ==
    [from |-> <<<<"billing">>, <<"netflix", "com">>>>,
     to |-> <<<<"user">>, <<"subtracker", "tech">>>>,
     subject |-> <<"subscription", "renewed">>,
     bodyText |-> <<"15", "usd", "yearly">>,
     bodyHtml |-> <<>>,
     receivedAt |-> 0]

\* Two dates, the later one written first, and no trial wording.
ScenarioDates ==
    [from |-> <<<<"billing">>, <<"netflix", "com">>>>,
     to |-> <<<<"user">>, <<"subtracker", "tech">>>>,
     subject |-> <<"subscription", "renewed">>,
     bodyText |-> <<"January 27, 2025.", "January 2, 2025">>,
     bodyHtml |-> <<>>,
     receivedAt |-> 0]

\* A known service writes about another name.
ScenarioWelcome ==
    [from |-> <<<<"billing">>, <<"netflix", "com">>>>,
     to |-> <<<<"user">>, <<"subtracker", "tech">>>>,
     subject |-> <<"subscription", "renewed">>,
     bodyText |-> <<"welcome", "to", "Acme">>,
     bodyHtml |-> <<>>,
     receivedAt |-> 0]

\* A receipt forwarded from a mailbox at a mail provider.
ScenarioGmail ==
    [from |-> <<<<"someone">>, <<"gmail", "com">>>>,
     to |-> <<<<"user">>, <<"subtracker", "tech">>>>,
     subject |-> <<"subscription", "renewed">>,
     bodyText |-> <<"$15.99">>,
     bodyHtml |-> <<>>,
     receivedAt |-> 0]

\* An HTML part whose only subscription wording is inside an attribute:
\* <img alt=' subscription renewed $15.99 monthly '> Hello
ScenarioHtml ==
    [from |-> <<<<"billing">>, <<"netflix", "com">>>>,
     to |-> <<<<"user">>, <<"subtracker", "tech">>>>,
     subject |-> <<"Hello">>,
     bodyText |-> <<>>,
     bodyHtml |-> <<"<img", "alt='", "subscription", "renewed", "$15.99", "monthly",
                    "'>", "Hello">>,
     receivedAt |-> 0]

Scenarios == {Scenario1, ScenarioUsd, ScenarioDates, ScenarioWelcome, ScenarioGmail,
              ScenarioHtml}

Emails ==
    Scenarios \cup
    {[from |-> h.from,
      to |-> <<<<"user">>, <<"subtracker", "tech">>>>,
      subject |-> h.subject,
      bodyText |-> b,
      bodyHtml |-> <<>>,
      receivedAt |-> 0] : h \in Heads, b \in SeqsUpTo(Vocab, MaxBody)}

\* The email objects the batches are made of: two that are invalid and
\* three that parse.
BatchMails == {
    [from |-> <<<<"">>>>, subject |-> <<>>, body |-> <<>>, date |-> <<>>],
    [from |-> <<<<"billing">>, <<"netflix", "com">>>>, subject |-> <<>>,
     body |-> <<>>, date |-> <<0>>],
    [from |-> <<<<"billing">>, <<"netflix", "com">>>>,
     subject |-> <<"subscription", "renewed">>, body |-> <<"$15.99">>, date |-> <<0>>],
    [from |-> <<<<"info">>, <<"ab", "co">>>>,
     subject |-> <<"Your", "trial", "ends">>, body |-> <<"tomorrow">>, date |-> <<>>],
    [from |-> <<<<"hello">>, <<"mail", "acme", "io">>>>,
     subject |-> <<"Welcome">>, body |-> <<"€9.99", "January 2, 2025">>, date |-> <<>>] }

Batches == SeqsUpTo(BatchMails, MaxBatch)

\* Email objects with no, one and several amounts in them.
AmountMail(subject, body) ==
    [from |-> <<<<"billing">>, <<"netflix", "com">>>>, subject |-> subject,
     body |-> body, date |-> <<0>>]

AmountMails == {
    AmountMail(<<"Welcome">>, <<"tomorrow">>),
    AmountMail(<<"subscription", "renewed">>, <<"$15.99">>),
    AmountMail(<<"$0">>, <<"15", "usd", "yearly">>),
    AmountMail(<<"renewed">>, <<"$15.99", "€9.99">>),
    AmountMail(<<"renewed">>, <<"$15.99", "€9.99", "$15.99">>),
    AmountMail(<<"renewed">>, <<"£5", "$15.99", "€9.99">>),
    AmountMail(<<"€9.99">>, <<"£5", "€9.99", "$15.99", "£5">>) }

(***************************************************************************)
(* The state machine: a caller hands one message to the engine, any number *)
(* of times, while the clock runs.                                         *)
(***************************************************************************)
None == [none |-> TRUE]

\* parseMultipleEmails has not been called.
NotCalled == <<None>>

\* The tables with no rows in them.
NoRows == [user_emails |-> <<>>, email_logs |-> <<>>,
           detected_subscriptions |-> <<>>, subscriptions |-> <<>>]

\* The patterns as the module is loaded: every lastIndex is 0.
Fresh == [k \in DOMAIN AMOUNT_PATTERNS |-> 0]

Init ==
    /\ email \in Emails
    /\ now = 0
    /\ pc = "ready"
    /\ detections = <<>>
    /\ steps = <<>>
    /\ result = None
    /\ chrono = "ok"
    /\ batch = <<>>
    /\ results = NotCalled
    /\ lastIndex = Fresh
    /\ amount = None
    /\ db = NoRows
    /\ procs = <<>>
    /\ reply = None

\* The same with a date library that fails.
InitFault ==
    /\ email \in Emails
    /\ now = 0
    /\ pc = "ready"
    /\ detections = <<>>
    /\ steps = <<>>
    /\ result = None
    /\ chrono = "throws"
    /\ batch = <<>>
    /\ results = NotCalled
    /\ lastIndex = Fresh
    /\ amount = None
    /\ db = NoRows
    /\ procs = <<>>
    /\ reply = None

\* await EmailSubscriptionParser.parseEmail(email)
ParseEmail ==
    /\ \E r \in {parseEmail(email, now)} :
           /\ detections' = r.detections
           /\ steps' = r.steps
           /\ lastIndex' = lastIndexAfterParse(r, getEmailContent(email), lastIndex)
    /\ pc' = "returned"
    /\ UNCHANGED <<email, now, result, chrono, batch, results, amount, db, procs, reply>>

\* parseSubscriptionEmail({from, subject, body, date}), the date optional
ParseSubscriptionEmail ==
    /\ \E d \in {<<>>, <<email.receivedAt>>} :
       \E mail \in {[from |-> email.from, subject |-> email.subject,
                     body |-> email.bodyText, date |-> d]} :
           /\ result' = parseSubscriptionEmail(mail, now)
           /\ lastIndex' = lastIndexAfter(mail, lastIndex)
    /\ UNCHANGED <<email, now, pc, detections, steps, chrono, batch, results, amount, db, procs, reply>>

\* Time passes.
Tick ==
    /\ now < MaxClock
    /\ now' = now + 1
    /\ UNCHANGED <<email, pc, detections, steps, result, chrono, batch, results,
                   lastIndex, amount, db, procs, reply>>

\* A caller of the class pipeline.
Next == ParseEmail \/ Tick

Spec == Init /\ [][Next]_vars

\* The class pipeline over a failing date library.
SpecFault == InitFault /\ [][Next]_vars

\* A batch is handed to the module-level parser.
InitBatch ==
    /\ email = Scenario1
    /\ now = 0
    /\ pc = "ready"
    /\ detections = <<>>
    /\ steps = <<>>
    /\ result = None
    /\ chrono \in {"ok", "throws"}
    /\ batch \in Batches
    /\ results = NotCalled
    /\ lastIndex = Fresh
    /\ amount = None
    /\ db = NoRows
    /\ procs = <<>>
    /\ reply = None

\* parseMultipleEmails(batch)
ParseMultipleEmails ==
    /\ results' = parseMultipleEmails(batch, now)
    /\ lastIndex' = lastIndexAfterAll(batch, lastIndex)
    /\ UNCHANGED <<email, now, pc, detections, steps, result, chrono, batch, amount, db, procs, reply>>

NextBatch == ParseMultipleEmails \/ Tick

SpecBatch == InitBatch /\ [][NextBatch]_vars

\* A caller of the module-level parser.
NextLegacy == ParseSubscriptionEmail \/ Tick

SpecLegacy == Init /\ [][NextLegacy]_vars

\* Callers of both entry points, at one instant.
NextEngine == ParseEmail \/ ParseSubscriptionEmail

SpecEngine == Init /\ [][NextEngine]_vars

\* The module is loaded; extractAmount is called on one message after
\* another, between calls of the entry points.
InitAmount ==
    /\ email = ScenarioUsd
    /\ now = 0
    /\ pc = "ready"
    /\ detections = <<>>
    /\ steps = <<>>
    /\ result = None
    /\ chrono = "ok"
    /\ batch = <<>>
    /\ results = NotCalled
    /\ lastIndex = Fresh
    /\ amount = None
    /\ db = NoRows
    /\ procs = <<>>
    /\ reply = None

\* The messages extractAmount has been called on.
Called == IF amount = None THEN <<>> ELSE Append(amount.before, amount.of)

\* extractAmount(mail)
ExtractAmount ==
    /\ Len(Called) < MaxCalls
    /\ \E mail \in AmountMails :
       \E r \in {extractAmountAt(mail, lastIndex)} :
           /\ amount' = [of |-> mail, before |-> Called, value |-> r.value]
           /\ lastIndex' = r.lastIndex
    /\ UNCHANGED <<email, now, pc, detections, steps, result, chrono, batch, results, db, procs, reply>>

\* Callers of extractAmount and of both entry points.
NextAmount == ExtractAmount \/ ParseEmail \/ ParseSubscriptionEmail

SpecAmount == InitAmount /\ [][NextAmount]_vars

(***************************************************************************)
(* Properties                                                              *)
(***************************************************************************)
Content == getEmailContent(email)

Candidate(type) ==
    \E i \in DOMAIN PatternsOf(type) : test(PatternsOf(type)[i], Content)

Of(type) == {i \in DOMAIN detections : detections[i].detectionType = type}

Resolved ==
    LET name == extractServiceName(email.from, Content)
    IN  name # <<>> /\ name[1] # <<>>

\* C1: when the message passes the spam filter and its service name is
\* resolved, parseEmail returns exactly one detection for each detection
\* type that has a matching pattern and none for a type that has none,
\* whatever the extractors found.
C1_OnePerCandidateType ==
    (pc = "returned" /\ ~isSpamEmail(Content, email.from) /\ Resolved)
        => \A k \in DOMAIN DetectionTypes :
               Cardinality(Of(DetectionTypes[k]))
                   = IF Candidate(DetectionTypes[k]) THEN 1 ELSE 0

\* Two types are reported at once, another is not, and neither an amount,
\* a cycle nor a date was extracted.
C1_Witness ==
    /\ pc = "returned"
    /\ Len(detections) = 2
    /\ \E k \in DOMAIN DetectionTypes : ~Candidate(DetectionTypes[k])
    /\ \A i \in DOMAIN detections :
           DOMAIN detections[i] \cap {"cost", "billingCycle", "trialEndDate"} = {}

SpamPhrase == \E i \in DOMAIN SPAM_PATTERNS : test(SPAM_PATTERNS[i], Content)

DisposableSender ==
    /\ Len(email.from) >= 2
    /\ \E i \in DOMAIN email.from[2] :
           InLabel(toLowerCase(email.from[2][i]))
               \cap {"tempmail", "guerrillamail", "10minutemail"} # {}

\* C2: parseEmail returns the empty list when the content matches a spam
\* pattern or the sender's domain contains a disposable-mailbox name, and
\* it does so before resolving the service name, classifying or extracting.
C2_SpamShortCircuit ==
    (pc = "returned" /\ (SpamPhrase \/ DisposableSender))
        => detections = <<>> /\ steps = <<"isSpamEmail">>

\* A spam phrase in a message of a known service that also carries the
\* phrasing of a detection type.
C2_Witness ==
    /\ pc = "returned"
    /\ SpamPhrase
    /\ \E k \in DOMAIN DetectionTypes : Candidate(DetectionTypes[k])
    /\ extractServiceName(email.from, Content) \in {<<<<"Netflix">>>>, <<<<"Acme">>>>}
    /\ detections = <<>>

\* C3: when the service name is null or the empty string parseEmail returns
\* the empty list, and every detection it returns has a non-empty
\* serviceName.
C3_NoServiceNoDetection ==
    pc = "returned"
        => /\ ~Resolved => detections = <<>>
           /\ \A i \in DOMAIN detections : detections[i].serviceName # <<>>

\* The service name resolves to the empty string in a message that is not
\* spam and carries the phrasing of a detection type.
C3_Witness ==
    /\ pc = "returned"
    /\ extractServiceName(email.from, Content) = <<<<>>>>
    /\ ~isSpamEmail(Content, email.from)
    /\ \E k \in DOMAIN DetectionTypes : Candidate(DetectionTypes[k])
    /\ detections = <<>>

\* C4: a second parseEmail call on the same message, at whatever time,
\* returns the list the first call returned.
C4_SameOutputAtAnyTime ==
    [][(pc = "returned" /\ pc' = "returned" /\ email' = email)
           => detections' = detections]_vars

\* C7: scenario 1 yields one detection: Netflix, billing_confirmation,
\* 15.99 USD, monthly, confidence at least 0.8.
C7_Scenario1 ==
    (pc = "returned" /\ email = Scenario1)
        => /\ Len(detections) = 1
           /\ detections[1].serviceName = <<"Netflix">>
           /\ detections[1].detectionType = "billing_confirmation"
           /\ "cost" \in DOMAIN detections[1]
           /\ detections[1].cost = 1599
           /\ "currency" \in DOMAIN detections[1]
           /\ detections[1].currency = "USD"
           /\ detections[1].confidence >= 8
           /\ "billingCycle" \in DOMAIN detections[1]
           /\ detections[1].billingCycle = <<"m", "o", "n", "t", "h", "l", "y">>

\* The values subscriptions.billing_cycle accepts.
BillingCycles == {
    <<"m", "o", "n", "t", "h", "l", "y">>,
    <<"q", "u", "a", "r", "t", "e", "r", "l", "y">>,
    <<"s", "e", "m", "i", "-", "a", "n", "n", "u", "a", "l", "l", "y">>,
    <<"a", "n", "n", "u", "a", "l", "l", "y">>,
    <<"w", "e", "e", "k", "l", "y">> }

\* C8: a billingCycle that a detection carries is one of weekly, monthly,
\* quarterly, semi-annually, annually.
C8_CycleInEnum ==
    \A i \in DOMAIN detections :
        "billingCycle" \in DOMAIN detections[i]
            => detections[i].billingCycle \in BillingCycles

\* C9: a cost that a detection carries lies strictly between 0 and 10000.
C9_CostInRange ==
    \A i \in DOMAIN detections :
        "cost" \in DOMAIN detections[i]
            => detections[i].cost > 0 /\ detections[i].cost < 1000000

\* The match that produces the cost: the first match of the first cost
\* pattern that matches.
Winning ==
    LET order == <<"$", "n USD", "€", "£">>
        hit == {k \in DOMAIN order : costMatch(Content, order[k]) # <<>>}
    IN  IF hit = {} THEN <<>>
        ELSE costMatch(Content, order[CHOOSE k \in hit : \A h \in hit : k <= h])

CurrencyOf(m0) ==
    CASE m0[1] = "$" -> "USD"
      [] m0[1] = "€" -> "EUR"
      [] m0[1] = "£" -> "GBP"
      [] OTHER -> "USD"

\* C10: a detection carries a currency exactly when it carries a cost, the
\* currency is that of the sign or code in the match that produced the
\* cost, and a message without any sign or code yields no currency.
C10_CurrencyOfTheMatch ==
    \A i \in DOMAIN detections :
        /\ "currency" \in DOMAIN detections[i] <=> "cost" \in DOMAIN detections[i]
        /\ "currency" \in DOMAIN detections[i]
               => /\ Winning # <<>>
                  /\ detections[i].cost = Winning[1].cents
                  /\ detections[i].currency = CurrencyOf(Winning[1].m0)
        /\ (\A j \in DOMAIN Content :
                /\ Content[j] \notin MoneyPieces \cup {"$", "€", "£"}
                /\ "usd" \notin Frags(Content[j]))
               => "currency" \notin DOMAIN detections[i]

\* Amounts in euros and in dollars lower-case "usd" are reported with
\* their own currency.
C10_Witness ==
    /\ pc = "returned"
    /\ \E i \in DOMAIN detections :
           /\ "currency" \in DOMAIN detections[i]
           /\ detections[i].currency = "EUR"
           /\ detections[i].cost = 999

\* The message with one more piece of text at the end of its body.
Plus(v) == [email EXCEPT !.bodyText = @ \o <<v>>]

\* The signals the class scorer counts for a type.
Signals(content, type) ==
    {<<"pattern", i>> : i \in {j \in DOMAIN PatternsOf(type) :
                                   test(PatternsOf(type)[j], content)}}
        \cup (IF costMentioned(content) THEN {<<"cost", 0>>} ELSE {})
        \cup (IF cycleMentioned(content) THEN {<<"cycle", 0>>} ELSE {})
        \cup (IF dateMentioned(content) THEN {<<"date", 0>>} ELSE {})

\* The message parseSubscriptionEmail was called with, and the same with
\* one more piece of text.
Mail == [from |-> email.from, subject |-> email.subject, body |-> email.bodyText,
         date |-> <<result.metadata.emailDate>>]

MailPlus(v) == [Mail EXCEPT !.body = @ \o <<v>>]

\* The signals the legacy scorer counts.
SignalsLegacy(mail, r) ==
    (IF r.type # "unknown" THEN {"type"} ELSE {})
        \cup (IF r.serviceName # <<"Unknown", "Service">> THEN {"serviceName"} ELSE {})
        \cup (IF r.trialEndDate # <<>> THEN {"trialEndDate"} ELSE {})
        \cup (IF r.billingAmount # <<>> THEN {"billingAmount"} ELSE {})
        \cup (IF countPatternMatches(mail) > 2 THEN {"patterns"} ELSE {})

Scored == pc = "returned" /\ result # None /\ ~result.threw

\* C5: a message that carries every signal of another and more is scored
\* at least as high for the same detection type, by the class scorer (per
\* detection of parseEmail) and by the scorer of parseSubscriptionEmail.
C5_ConfidenceMonotone ==
    Scored =>
        \A v \in Vocab :
            /\ \A i \in DOMAIN detections :
                   Signals(Content, detections[i].detectionType)
                           \subseteq Signals(getEmailContent(Plus(v)),
                                             detections[i].detectionType)
                       => calculateConfidence(getEmailContent(Plus(v)),
                                              detections[i].detectionType)
                              >= detections[i].confidence
            /\ \A r \in {parseSubscriptionEmail(MailPlus(v), now)} :
                   (/\ r.type = result.type
                    /\ SignalsLegacy(Mail, result) \subseteq SignalsLegacy(MailPlus(v), r))
                       => r.confidence >= result.confidence

\* One more piece of text adds a signal and raises both scores.
C5_Witness ==
    /\ Scored
    /\ \E v \in Vocab :
           /\ \E i \in DOMAIN detections :
                  /\ Signals(Content, detections[i].detectionType)
                         # Signals(getEmailContent(Plus(v)), detections[i].detectionType)
                  /\ Signals(Content, detections[i].detectionType)
                         \subseteq Signals(getEmailContent(Plus(v)),
                                           detections[i].detectionType)
                  /\ calculateConfidence(getEmailContent(Plus(v)),
                                         detections[i].detectionType)
                         > detections[i].confidence
           /\ \E r \in {parseSubscriptionEmail(MailPlus(v), now)} :
                  /\ r.type = result.type
                  /\ SignalsLegacy(Mail, result) # SignalsLegacy(MailPlus(v), r)
                  /\ SignalsLegacy(Mail, result) \subseteq SignalsLegacy(MailPlus(v), r)
                  /\ r.confidence > result.confidence

\* C6: every confidence parseEmail and parseSubscriptionEmail return lies
\* in [0, 1] (0..10 tenths).
C6_ConfidenceInUnitInterval ==
    /\ \A i \in DOMAIN detections : detections[i].confidence \in 0..10
    /\ (result # None /\ ~result.threw) => result.confidence \in 0..10

\* The class scorer's sum exceeds 1.0 and is capped, and the legacy scorer
\* has counted every one of its factors.
C6_Witness ==
    /\ Scored
    /\ \E i \in DOMAIN detections :
           /\ detections[i].confidence = 10
           /\ 5 + CountMatches(PatternsOf(detections[i].detectionType), Content)
                + (IF costMentioned(Content) THEN 2 ELSE 0)
                + (IF cycleMentioned(Content) THEN 1 ELSE 0)
                + (IF dateMentioned(Content) THEN 1 ELSE 0) > 10
    /\ result.confidence = 10

\* The message has neither subject nor text nor HTML.
Blank == email.subject = <<>> /\ email.bodyText = <<>> /\ email.bodyHtml = <<>>

\* C11: a call with a message whose subject, bodyText and bodyHtml are all
\* empty fails with an error: parseEmail does not return a list for it,
\* and parseSubscriptionEmail throws.
C11_BlankMessageFails ==
    Blank => /\ pc # "returned"
             /\ result # None => result.threw

\* The fields of a detection among the given ones.
Only(d, fields) == [f \in DOMAIN d \cap fields |-> d[f]]

\* C12: when date parsing throws, parseEmail still returns, for every
\* candidate type, one detection without trialEndDate whose cost, currency,
\* billingCycle and confidence are those the text alone gives.
C12_DateFailureIsSoft ==
    (chronoThrows /\ pc = "returned" /\ ~isSpamEmail(Content, email.from) /\ Resolved)
        => \A k \in DOMAIN DetectionTypes :
               /\ Cardinality(Of(DetectionTypes[k]))
                      = IF Candidate(DetectionTypes[k]) THEN 1 ELSE 0
               /\ \A i \in Of(DetectionTypes[k]) :
                      /\ "trialEndDate" \notin DOMAIN detections[i]
                      /\ Only(detections[i], {"cost", "currency", "billingCycle"})
                             = extractCost(Content, 1) @@ extractCycle(Content, 1)
                      /\ detections[i].confidence
                             = calculateConfidence(Content, DetectionTypes[k])

\* Date parsing failed on a text that holds a date and an amount, and two
\* types were reported with the amount.
C12_Witness ==
    /\ chronoThrows
    /\ pc = "returned"
    /\ Len(detections) = 2
    /\ dateMentioned(Content)
    /\ \A i \in DOMAIN detections :
           "cost" \in DOMAIN detections[i] /\ "trialEndDate" \notin DOMAIN detections[i]

\* C13: parseMultipleEmails returns an array of the length and order of
\* its input; element i is {success: true, data} with the result of
\* parseSubscriptionEmail on email i when that call returns, and
\* {success: false, error, email} when it throws, whatever the other
\* emails of the batch are.
C13_BatchIsolatesFailures ==
    results # NotCalled =>
        /\ DOMAIN results = DOMAIN batch
        /\ \A i \in DOMAIN batch :
               \E t \in 0..now :
                   \E r \in {parseSubscriptionEmail(batch[i], t)} :
                       IF r.threw
                         THEN results[i] = [success |-> FALSE, error |-> r.error,
                                            email |-> batch[i]]
                       ELSE results[i] = [success |-> TRUE, data |-> r]

\* An email that throws comes first and an email that parses follows it.
C13_Witness ==
    /\ results # NotCalled
    /\ Len(batch) >= 2
    /\ ~results[1].success
    /\ results[2].success
    /\ results[2].data.billingAmount = <<1599>>

\* C14: no call leaves state behind: after every call of extractAmount,
\* parseSubscriptionEmail and parseEmail each amount pattern's lastIndex is
\* 0 again, and extractAmount returns for a message what it returns for it
\* on freshly loaded patterns, whatever messages were processed before.
C14_NoStateLeftBehind ==
    /\ lastIndex = Fresh
    /\ amount # None => amount.value = extractAmount(amount.of)

\* An amount was extracted right after another message with a different
\* amount in it, and the class pipeline has made a detection in between.
C14_Witness ==
    /\ amount # None
    /\ amount.before # <<>>
    /\ amount.value # <<>>
    /\ extractAmount(amount.before[Len(amount.before)]) \notin {<<>>, amount.value}
    /\ pc = "returned"
    /\ detections # <<>>

\* The in-range amounts found in the subject and body of the message
\* extractAmount was called on, in ascending order.
Found == sorted(centsOf(allMatches(legacyContent(amount.of))))

Freq(a, v) == Cardinality({i \in DOMAIN a : a[i] = v})

AllDistinct(a) == \A u \in Range(a) : Freq(a, u) = 1

\* The rule where it needs no median: nothing found, one distinct value,
\* or a value that repeats.
ModeRule(a, v) ==
    /\ v = <<>> <=> a = <<>>
    /\ Cardinality(Range(a)) = 1 => v = <<a[1]>>
    /\ ~AllDistinct(a) =>
           /\ v # <<>>
           /\ v[1] \in Range(a)
           /\ \A u \in Range(a) : Freq(a, u) <= Freq(a, v[1])

\* x is the median of the ascending list a: the middle value, or the mean
\* of the two middle values.
IsMedian(a, x) ==
    IF Len(a) % 2 = 1 THEN x = a[(Len(a) + 1) \div 2]
    ELSE 2 * x = a[Len(a) \div 2] + a[(Len(a) \div 2) + 1]

\* C15 as stated: extractAmount returns null iff no in-range amount is
\* found, the single value if one distinct value is found, a value of
\* maximal frequency if some value repeats, and the median of the sorted
\* distinct amounts if all are distinct.
C15_ModeThenMedian ==
    amount # None =>
        /\ ModeRule(Found, amount.value)
        /\ (Found # <<>> /\ AllDistinct(Found)) =>
               /\ amount.value # <<>>
               /\ IsMedian(Found, amount.value[1])

\* C15 amended: the same, but when all amounts are distinct the value is
\* the element at index floor(n / 2) of the n sorted amounts: the median
\* for odd n, the upper of the two middle values for even n.
C15_ModeThenUpperMiddle ==
    amount # None =>
        /\ ModeRule(Found, amount.value)
        /\ (Found # <<>> /\ AllDistinct(Found)) =>
               amount.value = <<Found[(Len(Found) \div 2) + 1]>>

\* extractAmount was called on a message with an even number of amounts,
\* all distinct, and returned the upper of the two in the middle.
C15_Witness ==
    /\ amount # None
    /\ AllDistinct(Found)
    /\ Len(Found) = 2
    /\ amount.value = <<Found[2]>>
    /\ Found[2] > Found[1]

\* The email object extractSubscriptionData hands to the date extractor.
EmailObj == [from |-> <<<<"">>>>, subject |-> substring(Content, 100),
             body |-> Content, date |-> <<>>]

\* No trial keyword window of the message yields a date.
NoWindowDate(mail) == sectionDates(trialEndSection(legacyContent(mail)), now) = <<>>

\* The earliest of the parsed dates of the message that are strictly later
\* than ref: <<>> when there is none.
EarliestLater(mail, ref) ==
    LET later == {d \in Range(extractDates(legacyContent(mail), now)) : d > ref}
    IN  IF later = {} THEN <<>> ELSE <<Least(later)>>

TrialEndDateOf(d) == IF "trialEndDate" \in DOMAIN d THEN <<d.trialEndDate>> ELSE <<>>

\* C16: when no trial keyword window yields a date, the date returned is
\* the earliest parsed date strictly later than the message's receivedAt,
\* absent when there is none; for parseEmail the comparison is against
\* EmailData.receivedAt.
C16_EarliestLaterDate ==
    /\ (result # None /\ ~result.threw /\ NoWindowDate(Mail))
           => result.trialEndDate = EarliestLater(Mail, result.metadata.emailDate)
    /\ (pc = "returned" /\ NoWindowDate(EmailObj))
           => \A i \in DOMAIN detections :
                  TrialEndDateOf(detections[i]) = EarliestLater(EmailObj, email.receivedAt)

\* The known services whose identifier occurs in the sender domain, its
\* mail./noreply./no-reply. prefix stripped, in their capitalized form.
KnownNames ==
    IF DomainOf(email.from) = <<>> THEN {}
    ELSE {Capitalize(COMMON_SUBSCRIPTION_SERVICES[i]) :
              i \in {j \in DOMAIN COMMON_SUBSCRIPTION_SERVICES :
                         \E k \in DOMAIN StripPrefix(DomainOf(email.from)[1]) :
                             COMMON_SUBSCRIPTION_SERVICES[j]
                                 \in InLabel(StripPrefix(DomainOf(email.from)[1])[k])}}

\* C17: a sender domain that contains a known service identifier resolves
\* to that identifier capitalized, whatever the body says, in the class
\* resolver (the name of every detection) and in the resolver of
\* parseSubscriptionEmail.
C17_KnownDomainWins ==
    KnownNames # {} =>
        /\ pc = "returned" =>
               \A i \in DOMAIN detections :
                   \E n \in KnownNames : detections[i].serviceName = <<n>>
        /\ (result # None /\ ~result.threw) =>
               \E n \in KnownNames : result.serviceName = <<n>>

\* The sender is at a generic mail provider: the provider's label.
ProviderLabel ==
    IF DomainOf(email.from) = <<>> THEN {}
    ELSE {DomainOf(email.from)[1][1]} \cap {"gmail", "outlook", "yahoo", "hotmail"}

\* C18: for a sender at a generic mail-provider domain no resolver returns
\* the provider's own label as the service name.
C18_NoProviderLabel ==
    \A l \in ProviderLabel :
        /\ pc = "returned" =>
               \A i \in DOMAIN detections : detections[i].serviceName # <<Capitalize(l)>>
        /\ (result # None /\ ~result.threw) => result.serviceName # <<Capitalize(l)>>

Weight(present, tenths) == IF present THEN tenths ELSE 0

\* The four weights of the legacy scorer that do not depend on the number
\* of matching patterns, in tenths.
FieldWeights ==
    Weight(result.type # "unknown", 3)
        + Weight(result.serviceName # <<"Unknown", "Service">>, 2)
        + Weight(result.trialEndDate # <<>>, 2)
        + Weight(result.billingAmount # <<>>, 2)

\* C19 as stated: the legacy score is 0.3 for a known type, 0.2 for a
\* service name, 0.2 for a trial end date, 0.2 for an amount, and 0.1 if at
\* least two subscription patterns match, added up.
C19_BonusFromTwoPatterns ==
    (result # None /\ ~result.threw) =>
        result.confidence = FieldWeights + Weight(countPatternMatches(Mail) >= 2, 1)

\* C19 amended: the same sum, the 0.1 being added only if more than two
\* subscription patterns match; exactly two earn no bonus.
C19_BonusFromThreePatterns ==
    (result # None /\ ~result.threw) =>
        result.confidence = FieldWeights + Weight(countPatternMatches(Mail) >= 3, 1)

\* A message in which exactly two patterns match was scored, with every
\* other weight but not the 0.1.
C19_Witness ==
    /\ result # None
    /\ ~result.threw
    /\ countPatternMatches(Mail) = 2
    /\ result.confidence = FieldWeights
    /\ FieldWeights >= 7

\* Piece i of an HTML text is part of a tag: a tag was opened at or before
\* it and not closed before it.
InTag(html, i) ==
    \E a \in 1..i :
        /\ html[a] \in {"<img"}
        /\ \A k \in a..(i - 1) : html[k] \notin {"'>"}

\* The HTML text with its tags removed.
Stripped(html) ==
    LET F[i \in 0..Len(html)] ==
            IF i = 0 THEN <<>>
            ELSE IF InTag(html, i) THEN F[i - 1]
            ELSE Append(F[i - 1], html[i])
    IN  F[Len(html)]

\* What a list of detections says about type, amount and cycle.
Essentials(ds) ==
    [i \in DOMAIN ds |-> Only(ds[i], {"detectionType", "cost", "currency", "billingCycle"})]

\* C20: parseEmail reads bodyHtml in markup-stripped form only: the types
\* detected and the amounts and cycles extracted are those of the message
\* with the tags of bodyHtml removed, so text inside a tag or attribute
\* makes no type a candidate and supplies no amount or cycle.
C20_MarkupIsStripped ==
    pc = "returned" =>
        Essentials(detections)
            = Essentials(parseEmail([email EXCEPT !.bodyHtml = Stripped(@)], now).detections)

(***************************************************************************)
(* The consumers: the route handlers and the tables they write.  A row's   *)
(* id is its place in the table.                                           *)
(***************************************************************************)
\* The threshold taken as inclusive.
atLeastThreshold(detection) == detection.confidence >= 8

\* detection.confidence > 0.8, the confidence in tenths
highConfidence(detection) == detection.confidence > 8

\* billing_cycle: detectedSub.billing_cycle || 'monthly'
cycleOrMonthly(row) ==
    IF row.billing_cycle # <<>> THEN row.billing_cycle[1]
    ELSE <<"m", "o", "n", "t", "h", "l", "y">>

\* from('subscriptions').insert(subscriptionData) and, when it succeeds, the
\* update of the detection's subscription_id.  The insert fails when the
\* table's CHECK rejects the billing cycle.
insertSubscription(d, detectedId, description) ==
    IF cycleOrMonthly(d.detected_subscriptions[detectedId]) \in BillingCycles
      THEN [d EXCEPT
               !.subscriptions =
                   Append(@, [billing_cycle |->
                                  cycleOrMonthly(d.detected_subscriptions[detectedId]),
                              description |-> description,
                              source_email |-> detectedId]),
               !.detected_subscriptions[detectedId].subscription_id =
                   <<Len(d.subscriptions) + 1>>]
    ELSE d

autoAddSubscription(d, detectedId) == insertSubscription(d, detectedId, "Auto-detected")

\* for (const detection of detections): the detection is inserted into
\* detected_subscriptions, an undefined field as <<>>, and a subscription
\* is added for it when its confidence is above 0.8.
RECURSIVE saveDetections(_, _, _, _)
saveDetections(d, found, i, emailLogId) ==
    IF i > Len(found) THEN d
    ELSE LET fieldOf(f) == IF f \in DOMAIN found[i] THEN <<found[i][f]>> ELSE <<>>
             inserted ==
                 [d EXCEPT !.detected_subscriptions =
                     Append(@, [email_log_id |-> emailLogId,
                                service_name |-> found[i].serviceName,
                                cost |-> fieldOf("cost"),
                                billing_cycle |-> fieldOf("billingCycle"),
                                confidence_score |-> found[i].confidence,
                                detection_type |-> found[i].detectionType,
                                status |-> IF highConfidence(found[i]) THEN "auto_added"
                                           ELSE "pending",
                                subscription_id |-> <<>>])]
         IN  saveDetections(IF highConfidence(found[i])
                              THEN autoAddSubscription(inserted,
                                                       Len(inserted.detected_subscriptions))
                            ELSE inserted,
                            found, i + 1, emailLogId)

\* The deliveries a webhook run is made of.
MaxDeliveries == 2

\* What the parser's callers leave alone.
parserVars == <<email, now, pc, detections, steps, result, chrono, batch, results,
                lastIndex, amount>>

\* A payload that passes the validation of both routes with a sender that
\* is a number, 12345: the log keeps it as text.
MalformedPayload ==
    [mail |-> [ScenarioGmail EXCEPT !.from = <<<<"12345">>>>], fromIsString |-> FALSE]

\* The payloads of the webhooks: messages of confidence 0.9 with a
\* subscription the table accepts, 0.9 with a billing cycle it rejects, and
\* 0.8, and the malformed one.
Payloads ==
    {[mail |-> m, fromIsString |-> TRUE] : m \in {Scenario1, ScenarioUsd, ScenarioGmail}}
        \cup {MalformedPayload}

\* A handler that is over: its locals are gone.
finished(how) ==
    [route |-> "", payload |-> <<>>, pc |-> how, userEmail |-> <<>>, emailLog |-> 0]

\* POST of a webhook, up to the insertion of the log: the handler looks the
\* recipient up among the active addresses, returns when there is none,
\* and otherwise logs the message as pending and holds the row of the
\* address as it was read.
Post(routes, payloads) ==
    /\ Len(procs) < MaxDeliveries
    /\ \E route \in routes, payload \in payloads :
           LET found == {i \in DOMAIN db.user_emails :
                            /\ db.user_emails[i].email_address = payload.mail.to
                            /\ db.user_emails[i].is_active}
           IN  IF found = {}
                 THEN /\ procs' = Append(procs, finished("returned"))
                      /\ db' = db
               ELSE /\ procs' =
                           Append(procs,
                                  [route |-> route,
                                   payload |-> <<payload>>,
                                   pc |-> "stats",
                                   userEmail |->
                                       <<[id |-> Least(found),
                                          total_received |->
                                              db.user_emails[Least(found)].total_received]>>,
                                   emailLog |-> Len(db.email_logs) + 1])
                    /\ db' = [db EXCEPT !.email_logs =
                                 Append(@, [user_email_id |-> Least(found),
                                            raw_email |-> payload.mail,
                                            status |-> "pending",
                                            subscription_detected |-> FALSE])]
    /\ UNCHANGED reply
    /\ UNCHANGED parserVars

\* update({total_received: userEmail.total_received + 1}).eq('id', userEmail.id)
UpdateStats(p) ==
    /\ procs[p].pc = "stats"
    /\ db' = [db EXCEPT !.user_emails[procs[p].userEmail[1].id].total_received =
                            procs[p].userEmail[1].total_received + 1]
    /\ procs' = [procs EXCEPT ![p].pc = "parse"]
    /\ UNCHANGED reply
    /\ UNCHANGED parserVars

\* The rest of the handler when nothing throws: the message is parsed, the
\* detections are saved and the log is marked as processed.
Process(p) ==
    /\ procs[p].pc = "parse"
    /\ procs[p].payload[1].fromIsString
    /\ \E found \in {parseEmail(procs[p].payload[1].mail, now).detections} :
           db' = [saveDetections(db, found, 1, procs[p].emailLog)
                     EXCEPT !.email_logs[procs[p].emailLog].status = "processed",
                            !.email_logs[procs[p].emailLog].subscription_detected =
                                found # <<>>]
    /\ procs' = [procs EXCEPT ![p] = finished("returned")]
    /\ UNCHANGED reply
    /\ UNCHANGED parserVars

\* The rest of the handler when the parser throws: from.split is not a
\* function when the sender is not a string.  The Cloudflare handler
\* catches it around the parsing and marks its log by id.  The handler of
\* /api/email reaches its outer catch, whose update is filtered by
\* .eq('user_email_id', emailData.to), an address where the column holds
\* the id of a user_emails row, and throws again.
Fail(p) ==
    /\ procs[p].pc = "parse"
    /\ ~procs[p].payload[1].fromIsString
    /\ db' = IF procs[p].route = "cloudflare"
               THEN [db EXCEPT !.email_logs[procs[p].emailLog].status = "error"]
               ELSE [db EXCEPT !.email_logs =
                        [i \in DOMAIN @ |->
                            IF <<@[i].user_email_id>> = procs[p].payload[1].mail.to
                              THEN [@[i] EXCEPT !.status = "error"]
                            ELSE @[i]]]
    /\ procs' = [procs EXCEPT ![p] =
                     finished(IF @.route = "cloudflare" THEN "returned" ELSE "threw")]
    /\ UNCHANGED reply
    /\ UNCHANGED parserVars

createSubscriptionFromDetection(d, id) ==
    insertSubscription(d, id, "Created from email detection")

\* PUT /api/email/detections {id, status}
PutDetection ==
    /\ \E id \in DOMAIN db.detected_subscriptions, status \in {"approved", "rejected"} :
           /\ status = "approved" => Len(db.subscriptions) < MaxDeliveries
           /\ db' = IF status = "approved"
                      THEN createSubscriptionFromDetection(
                               [db EXCEPT !.detected_subscriptions[id].status = status], id)
                      ELSE [db EXCEPT !.detected_subscriptions[id].status = status]
    /\ UNCHANGED <<procs, reply>>
    /\ UNCHANGED parserVars

\* One address is registered and active; nothing has been delivered.
InitWebhook ==
    /\ email = Scenario1
    /\ now = 0
    /\ pc = "ready"
    /\ detections = <<>>
    /\ steps = <<>>
    /\ result = None
    /\ chrono = "ok"
    /\ batch = <<>>
    /\ results = NotCalled
    /\ lastIndex = Fresh
    /\ amount = None
    /\ db = [NoRows EXCEPT !.user_emails =
                 <<[email_address |-> Scenario1.to, is_active |-> TRUE,
                    total_received |-> 0]>>]
    /\ procs = <<>>
    /\ reply = None

\* Both webhooks receive messages while the user reviews the detections.
SpecWebhook ==
    InitWebhook /\ [][\/ Post({"email", "cloudflare"}, Payloads)
                      \/ \E p \in DOMAIN procs : UpdateStats(p)
                      \/ \E p \in DOMAIN procs : Process(p)
                      \/ \E p \in DOMAIN procs : Fail(p)
                      \/ PutDetection]_vars

\* The payloads whose logs are retried: a trial that started and a
\* subscription that was activated, in one message with a price, and the
\* malformed one.
RetryPayloads ==
    {[mail |-> [from |-> <<<<"billing">>, <<"netflix", "com">>>>,
                to |-> Scenario1.to,
                subject |-> <<"trial", "started", "subscription", "started",
                              "activated">>,
                bodyText |-> <<"$15.99">>,
                bodyHtml |-> <<>>,
                receivedAt |-> 0],
      fromIsString |-> TRUE],
     MalformedPayload}

\* allResults.reduce((best, current) =>
\*     current.confidence > best.confidence ? current : best)
RECURSIVE reduceBest(_, _, _)
reduceBest(allResults, best, i) ==
    IF i > Len(allResults) THEN best
    ELSE reduceBest(allResults,
                    IF allResults[i].confidence > best.confidence THEN allResults[i]
                    ELSE best,
                    i + 1)

\* What retryEmailProcessing ends with: its results, the one it took for
\* the best, parseResult[0], and whether it succeeded.  The update of
\* email_logs sets confidence_score, a column the table does not have, so
\* that the retry throws before anything is written.
retryEmailProcessing(emailLog, t) ==
    LET parseResult == parseEmail([emailLog.raw_email EXCEPT !.bodyHtml = <<>>],
                                  t).detections
    IN  [retryType |-> "processing",
         parseResult |-> parseResult,
         bestResult |-> IF parseResult = <<>> THEN <<>> ELSE <<parseResult[1]>>,
         success |-> FALSE]

\* The same for retryEmailParsing, which parses twice; the second parse
\* reads raw_email.html, which no handler stores.
retryEmailParsing(emailLog, t) ==
    LET allResults ==
            parseEmail([emailLog.raw_email EXCEPT !.bodyHtml = <<>>], t).detections
                \o parseEmail([emailLog.raw_email EXCEPT !.bodyText = <<>>,
                                                         !.bodyHtml = <<>>],
                              t).detections
    IN  [retryType |-> "parsing",
         parseResult |-> allResults,
         bestResult |-> IF allResults = <<>> THEN <<>>
                        ELSE <<reduceBest(allResults, allResults[1], 2)>>,
         success |-> FALSE]

\* POST /api/email/retry {emailLogId, retryType}
Retry ==
    /\ \E id \in DOMAIN db.email_logs :
           \/ reply' = retryEmailProcessing(db.email_logs[id], now)
           \/ reply' = retryEmailParsing(db.email_logs[id], now)
    /\ UNCHANGED <<db, procs>>
    /\ UNCHANGED parserVars

\* The user retries the logs of the messages that reached /api/email.
SpecRetry ==
    InitWebhook /\ [][\/ Post({"email"}, RetryPayloads)
                      \/ \E p \in DOMAIN procs : UpdateStats(p)
                      \/ \E p \in DOMAIN procs : Process(p)
                      \/ \E p \in DOMAIN procs : Fail(p)
                      \/ Retry]_vars

\* The POSTs of /api/users/email-address of a run.
MaxPosts == 2

\* Limit to 5 email addresses per user
MaxActive == 5

\* select('*', {count: 'exact', head: true}).eq('is_active', true)
activeCount(d) ==
    Cardinality({i \in DOMAIN d.user_emails : d.user_emails[i].is_active})

\* What generate_user_email is meant to return: the alias with the first
\* counter that is not in use.  An address is written as that counter.
generate_user_email(d) ==
    Least((0..Len(d.user_emails))
              \ {d.user_emails[i].email_address : i \in DOMAIN d.user_emails})

\* POST /api/users/email-address up to the count of the active addresses:
\* the request is refused at five of them.
PostAddress ==
    /\ Len(procs) < MaxPosts
    /\ procs' = Append(procs, IF activeCount(db) >= MaxActive
                                THEN [pc |-> "returned", generatedEmail |-> <<>>]
                              ELSE [pc |-> "generate", generatedEmail |-> <<>>])
    /\ UNCHANGED <<db, reply>>
    /\ UNCHANGED parserVars

\* rpc('generate_user_email'): an address, or an error and the answer 500.
\* Whether the function of the migration returns depends on how the
\* database resolves its comparison of email_address with email_address.
Generate(p) ==
    /\ procs[p].pc = "generate"
    /\ \/ procs' = [procs EXCEPT ![p] = [pc |-> "insert",
                                         generatedEmail |-> <<generate_user_email(db)>>]]
       \/ procs' = [procs EXCEPT ![p] = [pc |-> "returned", generatedEmail |-> <<>>]]
    /\ UNCHANGED <<db, reply>>
    /\ UNCHANGED parserVars

\* from('user_emails').insert({..., is_active: true}); email_address is
\* UNIQUE, and a violation is answered with 409.
InsertAddress(p) ==
    /\ procs[p].pc = "insert"
    /\ db' = IF \E i \in DOMAIN db.user_emails :
                    db.user_emails[i].email_address = procs[p].generatedEmail[1]
               THEN db
               ELSE [db EXCEPT !.user_emails =
                        Append(@, [email_address |-> procs[p].generatedEmail[1],
                                   is_active |-> TRUE,
                                   total_received |-> 0])]
    /\ procs' = [procs EXCEPT ![p] = [pc |-> "returned", generatedEmail |-> <<>>]]
    /\ UNCHANGED reply
    /\ UNCHANGED parserVars

\* PUT /api/users/email-address {id, is_active}
PutAddress ==
    /\ \E id \in DOMAIN db.user_emails, is_active \in BOOLEAN :
           db' = [db EXCEPT !.user_emails[id].is_active = is_active]
    /\ UNCHANGED <<procs, reply>>
    /\ UNCHANGED parserVars

\* DELETE /api/users/email-address?id=
DeleteAddress ==
    /\ \E id \in DOMAIN db.user_emails :
           db' = [db EXCEPT !.user_emails =
                     [i \in 1..(Len(@) - 1) |-> IF i < id THEN @[i] ELSE @[i + 1]]]
    /\ UNCHANGED <<procs, reply>>
    /\ UNCHANGED parserVars

\* The user has one address less than the limit, all of them active.
InitAddresses ==
    /\ email = Scenario1
    /\ now = 0
    /\ pc = "ready"
    /\ detections = <<>>
    /\ steps = <<>>
    /\ result = None
    /\ chrono = "ok"
    /\ batch = <<>>
    /\ results = NotCalled
    /\ lastIndex = Fresh
    /\ amount = None
    /\ db = [NoRows EXCEPT !.user_emails =
                 [i \in 1..(MaxActive - 1) |->
                     [email_address |-> i - 1, is_active |-> TRUE, total_received |-> 0]]]
    /\ procs = <<>>
    /\ reply = None

\* The user manages the addresses from several sessions at once.
SpecAddresses ==
    InitAddresses /\ [][\/ PostAddress
                        \/ \E p \in DOMAIN procs : Generate(p)
                        \/ \E p \in DOMAIN procs : InsertAddress(p)
                        \/ PutAddress
                        \/ DeleteAddress]_vars

\* parseEmail while the clock moves on by a day after the k-th detector:
\* each detector calls extractSubscriptionData, which reads Date.now().
parseEmailAcross(emailData, t, k) ==
    LET content == getEmailContent(emailData)
        serviceName == extractServiceName(emailData.from, content)
        at(i) == IF i <= k THEN t ELSE t + 1
    IN  IF isSpamEmail(content, emailData.from)
          THEN [detections |-> <<>>, steps |-> <<"isSpamEmail">>]
        ELSE IF serviceName = <<>> \/ serviceName[1] = <<>>
          THEN [detections |-> <<>>, steps |-> <<"isSpamEmail", "extractServiceName">>]
        ELSE [detections |->
                  detectTrialSignup(content, serviceName[1], at(1))
                      \o detectTrialReminder(content, serviceName[1], at(2))
                      \o detectBillingConfirmation(content, serviceName[1], at(3))
                      \o detectSubscriptionStart(content, serviceName[1], at(4))
                      \o detectPriceChange(content, serviceName[1], at(5)),
              steps |-> <<"isSpamEmail", "extractServiceName", "detect">>]

\* A call of parseEmail during which the day changes.
ParseEmailOverMidnight ==
    /\ now < MaxClock
    /\ \E k \in 1..4 :
           \E r \in {parseEmailAcross(email, now, k)} :
               /\ detections' = r.detections
               /\ steps' = r.steps
               /\ lastIndex' = lastIndexAfterParse(r, getEmailContent(email), lastIndex)
    /\ now' = now + 1
    /\ pc' = "returned"
    /\ UNCHANGED <<email, result, chrono, batch, results, amount, db, procs, reply>>

\* Callers of the class pipeline at any time of the day.
SpecClock == Init /\ [][ParseEmail \/ ParseEmailOverMidnight \/ Tick]_vars

(***************************************************************************)
(* Properties of the consumers.                                            *)
(***************************************************************************)
\* The subscriptions created from detection i.
SubsOf(i) == {j \in DOMAIN db.subscriptions : db.subscriptions[j].source_email = i}

\* Those of them the webhook created by itself.
AutoSubsOf(i) == {j \in SubsOf(i) : db.subscriptions[j].description = "Auto-detected"}

\* C21: a detection is stored as 'auto_added', and a subscription is
\* created for it by the webhook, exactly when its confidence is strictly
\* above 0.8; at 0.8 or below it is stored as 'pending' and has no
\* subscription as long as it is pending.
C21_AutoAddAboveThreshold ==
    \A i \in DOMAIN db.detected_subscriptions :
        /\ db.detected_subscriptions[i].status = "auto_added"
               => db.detected_subscriptions[i].confidence_score > 8
        /\ db.detected_subscriptions[i].status = "pending"
               => /\ db.detected_subscriptions[i].confidence_score <= 8
                  /\ SubsOf(i) = {}
        /\ db.detected_subscriptions[i].confidence_score <= 8 => AutoSubsOf(i) = {}
        /\ (/\ db.detected_subscriptions[i].confidence_score > 8
            /\ cycleOrMonthly(db.detected_subscriptions[i]) \in BillingCycles)
               => AutoSubsOf(i) # {}

\* A detection at exactly 0.8 is pending and one above it was added.
C21_Witness ==
    /\ \E i \in DOMAIN db.detected_subscriptions :
           /\ db.detected_subscriptions[i].confidence_score = 8
           /\ db.detected_subscriptions[i].status = "pending"
    /\ \E i \in DOMAIN db.detected_subscriptions :
           /\ db.detected_subscriptions[i].confidence_score = 9
           /\ db.detected_subscriptions[i].status = "auto_added"
           /\ AutoSubsOf(i) # {}

\* The confidences of the results of the last retry.
Confidences == {reply.parseResult[i].confidence : i \in DOMAIN reply.parseResult}

\* C22: the detection a retry takes for the best result has a confidence
\* at least that of every other detection of the list, and it is above the
\* threshold whenever one of them is.
C22_BestResultIsMaximal ==
    (reply # None /\ reply.parseResult # <<>>)
        => /\ reply.bestResult # <<>>
           /\ \A c \in Confidences : c <= reply.bestResult[1].confidence
           /\ highConfidence(reply.bestResult[1]) <=> \E c \in Confidences : c > 8

\* The logs of one message; raw_email holds the payload, its messageId
\* included, so that equal payloads are deliveries of one message.
LogsOf(mail) == {i \in DOMAIN db.email_logs : db.email_logs[i].raw_email = mail}

\* The detections saved for the logs of one message.
DetectedOf(mail) ==
    {i \in DOMAIN db.detected_subscriptions :
        db.detected_subscriptions[i].email_log_id \in LogsOf(mail)}

\* C23: a message delivered again adds nothing: it has one log, and the
\* detections and webhook-created subscriptions of one processing.
C23_RedeliveryAddsNothing ==
    \A payload \in Payloads :
        /\ Cardinality(LogsOf(payload.mail)) <= 1
        /\ Cardinality(DetectedOf(payload.mail))
               <= Len(parseEmail(payload.mail, now).detections)
        /\ Cardinality(UNION {AutoSubsOf(i) : i \in DetectedOf(payload.mail)})
               <= Len(parseEmail(payload.mail, now).detections)

\* C24: a detection gives rise to at most one subscription, whatever the
\* webhook and the PUTs of the user did with it.
C24_OneSubscriptionPerDetection ==
    \A i \in DOMAIN db.detected_subscriptions : Cardinality(SubsOf(i)) <= 1

\* C25: a detection in status 'auto_added' is linked to its subscription;
\* one whose subscription could not be inserted is not left 'auto_added'.
C25_AutoAddedIsLinked ==
    \A i \in DOMAIN db.detected_subscriptions :
        db.detected_subscriptions[i].status = "auto_added"
            => /\ db.detected_subscriptions[i].subscription_id # <<>>
               /\ SubsOf(i) # {}

\* The handlers that have not returned or thrown yet.
Running == {p \in DOMAIN procs : procs[p].pc \notin {"returned", "threw"}}

\* C26: a log that is still 'pending' belongs to a handler that is still
\* running: a handler that returned or threw left its log 'processed' or
\* 'error'.
C26_NoLogLeftPending ==
    \A i \in DOMAIN db.email_logs :
        db.email_logs[i].status = "pending" => \E p \in Running : procs[p].emailLog = i

\* C27: once the handlers are over, the address has counted every message
\* that was logged for it.
C27_EveryDeliveryCounted ==
    Running = {}
        => \A a \in DOMAIN db.user_emails :
               db.user_emails[a].total_received
                   = Cardinality({i \in DOMAIN db.email_logs :
                                     db.email_logs[i].user_email_id = a})

Shared(d) == [f \in DOMAIN d \ {"detectionType", "confidence"} |-> d[f]]

\* C29: the detections of one call of parseEmail carry the same service
\* name, cost, currency, billing cycle and trial end date, differ in
\* nothing but their type and confidence, and none has a next billing date.
C29_DetectionsShareTheData ==
    pc = "returned"
        => \A i \in DOMAIN detections :
               /\ "nextBillingDate" \notin DOMAIN detections[i]
               /\ \A j \in DOMAIN detections :
                      /\ Shared(detections[i]) = Shared(detections[j])
                      /\ i # j => detections[i].detectionType # detections[j].detectionType

\* The values of the list a that no value occurs more often than.
TopValues(a) == {u \in Range(a) : \A w \in Range(a) : Freq(a, w) <= Freq(a, u)}

\* The amounts of the message in the order in which the patterns found them.
Pushed == centsOf(allMatches(legacyContent(amount.of)))

\* C30: when some amount of the message repeats, extractAmount returns the
\* smallest of the amounts of maximal frequency, wherever they stand in the
\* text and whichever pattern found them.
C30_SmallestOfTheModes ==
    (amount # None /\ \E u \in Range(Found) : Freq(Found, u) > 1)
        => amount.value = <<Least(TopValues(Found))>>

\* Two amounts occur twice each; the larger one comes first in the text and
\* was found first, and the smaller one was returned.
C30_Witness ==
    /\ amount # None
    /\ Cardinality(TopValues(Found)) = 2
    /\ \E u \in TopValues(Found) : Freq(Found, u) = 2
    /\ amount.value = <<Least(TopValues(Found))>>
    /\ \E i, j \in DOMAIN Pushed :
           /\ i < j
           /\ Pushed[i] = Greatest(TopValues(Found))
           /\ Pushed[j] = Least(TopValues(Found))
====
